---- MODULE Spec2Model ----
(***************************************************************************)
(* Verification model of the NBA analyst data pipeline:                    *)
(*   - NBADataValidator.validate_dataframe   (ingestion/validators.py)     *)
(*   - NBADataIngestion.ingest_csv_file      (ingestion/ingest.py)         *)
(*   - DatabaseConnection.get_session        (database/connection.py)      *)
(*   - AdvancedMetricsProcessor.process_season_data (analytics/processor)  *)
(*   - the per-game metric functions        (analytics/metrics, defensive) *)
(*   - EfficiencyAnalyzer                   (analytics/efficiency.py)      *)
(*   - TrendAnalyzer                        (analytics/trends.py)          *)
(*   - the rebounds consistency rule        (ingestion/validators.py)      *)
(*   - ProcessingWorkflow, WorkflowManager  (processing/workflow.py)       *)
(*   - DataProcessingPipeline.process_nba_dataset (processing/pipeline.py) *)
(***************************************************************************)
EXTENDS Integers, Sequences, FiniteSets, TLC

(***************************************************************************)
(* Bounds of the explored inputs.                                          *)
(***************************************************************************)
MaxErrorsLimit == 2      \* largest max_errors setting of the validator
MaxIssuesPerRule == 2    \* longest issue list one rule returns
MaxProduced == 3         \* most issues all rules together return in one run
MaxRows == 2             \* longest ordinary input file, in rows
MaxPersons == 2          \* distinct person ids (one game), i.e. distinct keys
MaxBatchSize == 2        \* largest batch_size setting
MaxOps == 2              \* ingestion calls in one behaviour
MaxOpsP == 4             \* ingestion and processing calls in one behaviour
MaxFaults == 1           \* store faults injected into one ingestion call
LongRows == 10           \* rows of the one long input file
MaxGames == 3            \* add_game calls on one analyzer
MaxSeasonGames == 7      \* games of the five-month season

VARIABLES
    max_errors,    \* NBADataValidator.max_errors
    strict_mode,   \* NBADataValidator.strict_mode
    data_type,     \* 'box_scores' | 'totals' | 'unknown' (argument of the running call)
    v,             \* validate_dataframe: position in the rule loops, errors, warnings
    calls,         \* log of the rule_func(df) invocations: which rule, what it did
    validate_data, \* NBADataIngestion.validate_data
    upsert_mode,   \* NBADataIngestion.upsert_mode
    dialect,       \* session.bind.dialect.name
    batch_size,    \* NBADataIngestion.batch_size
    store,         \* committed tables: players_raw, teams_raw, players_processed
    session,       \* the session of get_session() and its transaction
    call,          \* frame of the running ingest_csv_file call
    result,        \* IngestionResult / ProcessingResult last returned
    hist,          \* record of what the calls of this behaviour did
    monthly_data,  \* TrendAnalyzer.monthly_data: month key -> MonthlyPerformance
    game_data,     \* TrendAnalyzer.game_data: the (date, stats) pairs added, in call order
    efficiency_games, \* EfficiencyAnalyzer.efficiency_games
    alog,          \* the add_game... calls made on the EfficiencyAnalyzer, in call order
    stats,         \* the PlayerGameStats argument of the metric function last called
    answer,        \* what the query, metric function or rule last called returned
    df,            \* the DataFrame a validation rule is applied to
    workflow,      \* ProcessingWorkflow.tasks, in insertion order
    execution,     \* the WorkflowExecution in active_executions
    wf,            \* frame of the running execute_workflow call
    invoked,       \* log of the task_function invocations and their outcome
    cancels,       \* log of the cancel_workflow calls and what they returned
    pipeline       \* frame and result of the running process_nba_dataset call

vvars == <<max_errors, strict_mode, data_type, v, calls>>
ivars == <<validate_data, upsert_mode, dialect, batch_size, store, session, call, result, hist>>
avars == <<monthly_data, game_data, efficiency_games, alog, stats, answer>>
wvars == <<df, workflow, execution, wf, invoked, cancels, pipeline>>
vars == <<max_errors, strict_mode, data_type, v, calls,
          validate_data, upsert_mode, dialect, batch_size, store, session, call, result, hist,
          monthly_data, game_data, efficiency_games, alog, stats, answer, df,
          workflow, execution, wf, invoked, cancels, pipeline>>

(***************************************************************************)
(* Analytics: numbers                                                      *)
(***************************************************************************)

\* A Python float is taken as the exact rational n/d in lowest terms, d > 0.
RECURSIVE GCD(_, _)
GCD(a, b) == IF b = 0 THEN a ELSE GCD(b, a % b)

Abs(x) == IF x < 0 THEN -x ELSE x

Rat(n, d) ==
    LET g == GCD(Abs(n), Abs(d))
        s == IF d < 0 THEN -1 ELSE 1
    IN  [n |-> s * (n \div g), d |-> s * (d \div g)]

\* The value None in a place that otherwise holds a float.
None == [n |-> 0, d |-> 0]

Float(i) == Rat(i, 1)

\* Sums are formed over the least common denominator and products after
\* cancelling across, which keeps the intermediate integers small.
RAdd(a, b) ==
    LET g == GCD(a.d, b.d)
    IN  Rat(a.n * (b.d \div g) + b.n * (a.d \div g), (a.d \div g) * b.d)

RSub(a, b) == RAdd(a, [n |-> -b.n, d |-> b.d])

RMul(a, b) ==
    LET g1 == GCD(Abs(a.n), b.d)
        g2 == GCD(Abs(b.n), a.d)
    IN  Rat((a.n \div g1) * (b.n \div g2), (a.d \div g2) * (b.d \div g1))

\* a / b for b # 0.
RDiv(a, b) == RMul(a, Rat(b.d, b.n))

RLess(a, b) == a.n * b.d < b.n * a.d

RLeq(a, b) == a.n * b.d <= b.n * a.d

RMin(a, b) == IF RLess(b, a) THEN b ELSE a

RMax(a, b) == IF RLess(a, b) THEN b ELSE a

(***************************************************************************)
(* Analytics: per-game metrics                                             *)
(***************************************************************************)

\* PlayerGameStats(): every field at its default.
PlayerGameStats ==
    [ points |-> 0, field_goals_made |-> 0, field_goals_attempted |-> 0,
      three_pointers_made |-> 0, free_throws_attempted |-> 0,
      rebounds_defensive |-> 0, steals |-> 0, blocks |-> 0,
      fouls_personal |-> 0, minutes_played |-> 0 ]

\* calculate_true_shooting_percentage: points / (2 * (FGA + 0.44 * FTA)).
calculate_true_shooting_percentage(st) ==
    IF st.field_goals_attempted = 0 /\ st.free_throws_attempted = 0 THEN None
    ELSE LET true_shooting_attempts ==
                 RAdd(Float(st.field_goals_attempted),
                      RMul(Rat(44, 100), Float(st.free_throws_attempted)))
         IN  IF true_shooting_attempts.n = 0 THEN None
             ELSE RDiv(Float(st.points), RMul(Float(2), true_shooting_attempts))

\* A variant that counts a three-pointer made as two field goals made.
calculate_effective_field_goal_percentage_Double(st) ==
    IF st.field_goals_attempted = 0 THEN None
    ELSE LET effective_field_goals ==
                 RAdd(Float(st.field_goals_made), Float(st.three_pointers_made))
         IN  RDiv(effective_field_goals, Float(st.field_goals_attempted))

\* calculate_effective_field_goal_percentage: (FGM + 0.5 * 3PM) / FGA.
calculate_effective_field_goal_percentage(st) ==
    IF st.field_goals_attempted = 0 THEN None
    ELSE LET effective_field_goals ==
                 RAdd(Float(st.field_goals_made),
                      RMul(Rat(1, 2), Float(st.three_pointers_made)))
         IN  RDiv(effective_field_goals, Float(st.field_goals_attempted))

\* (stat / minutes_played) * 36.0
Per36(stat, minutes) == RMul(RDiv(Float(stat), Float(minutes)), Float(36))

\* A variant that returns final_score without the cap at 100.
calculate_defensive_impact_score_Uncapped(st) ==
    IF st.minutes_played <= 0 THEN None
    ELSE LET m == st.minutes_played
             steals_score == RMin(RMul(Per36(st.steals, m), Float(8)), Float(25))
             blocks_score == RMin(RMul(Per36(st.blocks, m), Float(6)), Float(20))
             dreb_score == RMin(RMul(Per36(st.rebounds_defensive, m), Float(2)), Float(25))
             foul_score ==
                 IF st.fouls_personal = 0 THEN Float(15)
                 ELSE RMax(RSub(Float(15), RMul(Per36(st.fouls_personal, m), Float(2))),
                           Float(0))
             minutes_factor == RMin(RDiv(Float(m), Float(32)), Rat(12, 10))
             base_score == RAdd(RAdd(steals_score, blocks_score),
                                RAdd(dreb_score, foul_score))
         IN  RMul(base_score, minutes_factor)

\* calculate_defensive_impact_score
calculate_defensive_impact_score(st) ==
    IF st.minutes_played <= 0 THEN None
    ELSE LET m == st.minutes_played
             steals_score == RMin(RMul(Per36(st.steals, m), Float(8)), Float(25))
             blocks_score == RMin(RMul(Per36(st.blocks, m), Float(6)), Float(20))
             dreb_score == RMin(RMul(Per36(st.rebounds_defensive, m), Float(2)), Float(25))
             foul_score ==
                 IF st.fouls_personal = 0 THEN Float(15)
                 ELSE RMax(RSub(Float(15), RMul(Per36(st.fouls_personal, m), Float(2))),
                           Float(0))
             minutes_factor == RMin(RDiv(Float(m), Float(32)), Rat(12, 10))
             base_score == RAdd(RAdd(steals_score, blocks_score),
                                RAdd(dreb_score, foul_score))
             final_score == RMul(base_score, minutes_factor)
         IN  RMin(final_score, Float(100))

\* No analyzer holds a game and no metric function has been called.
NoAnswer == [op |-> "none"]

\* No frame is under validation.
NoFrame == [columns |-> {}, rows |-> <<>>]

\* No workflow is being executed.
NoExecution ==
    [status |-> "none", started_at |-> FALSE, completed_at |-> FALSE,
     error_message |-> "None", progress |-> Float(0),
     results |-> [is_none |-> TRUE, keys |-> {}]]

NoFrameOfExecute == [pc |-> "none", execution_order |-> <<>>, i |-> 0, task_results |-> {}]

\* process_nba_dataset has not been called.
NoPipeline ==
    [pc |-> "none", csv_files |-> <<>>, next |-> 0, ingestion_results |-> <<>>,
     processing_results |-> <<>>, errors |-> <<>>,
     outcome |-> [success |-> FALSE, ingestion_results |-> <<>>,
                  processing_results |-> <<>>, errors |-> <<>>]]

NoWork ==
    /\ pipeline = NoPipeline
    /\ df = NoFrame
    /\ workflow = <<>>
    /\ execution = NoExecution
    /\ wf = NoFrameOfExecute
    /\ invoked = <<>>
    /\ cancels = <<>>

NoAnalytics ==
    /\ monthly_data = <<>>
    /\ game_data = <<>>
    /\ efficiency_games = <<>>
    /\ alog = <<>>
    /\ stats = PlayerGameStats
    /\ answer = NoAnswer
    /\ NoWork

(***************************************************************************)
(* Validator                                                               *)
(***************************************************************************)

\* ValidationSeverity members that classify an issue as an error.
IsErrorSeverity(s) == s \in {"error", "critical"}

\* Severities the rule functions return (INFO is never produced by a rule).
RuleSeverities == {"warning", "error", "critical"}

\* rule=None on every issue a rule returns itself.
NoRule == "None"

ValidationError(f, s, r) == [field |-> f, severity |-> s, rule |-> r]

\* _get_box_scores_rules: ordered categories, ordered rule functions.
BoxScoresRules ==
    << << "_validate_required_fields_box_scores" >>,
       << "_validate_data_types_box_scores" >>,
       << "_validate_shooting_consistency",
          "_validate_rebounds_consistency",
          "_validate_non_negative_stats",
          "_validate_season_format",
          "_validate_team_tricode",
          "_validate_minutes_format" >>,
       << "_validate_points_calculation",
          "_validate_three_point_subset",
          "_validate_dnp_consistency" >> >>

\* _get_totals_rules
TotalsRules ==
    << << "_validate_required_fields_totals" >>,
       << "_validate_data_types_totals" >>,
       << "_validate_win_loss_format",
          "_validate_team_abbreviation_format",
          "_validate_non_negative_team_stats" >> >>

\* self.validation_rules
ValidationRules(dt) == IF dt = "box_scores" THEN BoxScoresRules ELSE TotalsRules

KnownTypes == {"box_scores", "totals"}

RECURSIVE Flatten(_)
Flatten(ss) == IF ss = <<>> THEN <<>> ELSE Head(ss) \o Flatten(Tail(ss))

\* All rules of a data type in execution order.
AllRules(dt) == Flatten(ValidationRules(dt))

\* What one invocation rule_func(df) does: raise, or return a list of
\* severities (one per issue).
RuleOutcomes ==
    { [raises |-> TRUE, issues |-> <<>>] } \cup
    { [raises |-> FALSE, issues |-> l] :
        l \in UNION { [1..n -> RuleSeverities] : n \in 0..MaxIssuesPerRule } }

\* The issue list a rule returns; the issue's field stands for the rule's
\* own subject (every rule reports on its own fields).
RuleErrors(rule, out) ==
    [i \in 1..Len(out.issues) |-> ValidationError(rule, out.issues[i], NoRule)]

\* The inner loop `for error in rule_errors` with its break.
RECURSIVE AppendIssues(_, _, _, _)
AppendIssues(errs, warns, list, max) ==
    IF list = <<>> THEN [errors |-> errs, warnings |-> warns]
    ELSE LET e == Head(list)
             errs1 == IF IsErrorSeverity(e.severity) THEN Append(errs, e) ELSE errs
             warns1 == IF IsErrorSeverity(e.severity) THEN warns ELSE Append(warns, e)
         IN IF Len(errs1) >= max
            THEN [errors |-> errs1, warnings |-> warns1]
            ELSE AppendIssues(errs1, warns1, Tail(list), max)

\* RunRule with an except clause that gives up the rest of the category.
RunRule_BreakOnRaise(errs, warns, rule, out, max) ==
    IF out.raises
    THEN [errors |-> Append(errs, ValidationError("validation_system", "critical", rule)),
          warnings |-> warns, brk |-> TRUE, raised |-> FALSE]
    ELSE LET r == AppendIssues(errs, warns, RuleErrors(rule, out), max)
         IN [errors |-> r.errors, warnings |-> r.warnings,
             brk |-> Len(r.errors) >= max, raised |-> FALSE]

\* The try/except around one rule_func: brk is the `break` out of the
\* rule loop, taken only on the normal path.
RunRule(errs, warns, rule, out, max) ==
    IF out.raises
    THEN [errors |-> Append(errs, ValidationError("validation_system", "critical", rule)),
          warnings |-> warns, brk |-> FALSE, raised |-> FALSE]
    ELSE LET r == AppendIssues(errs, warns, RuleErrors(rule, out), max)
         IN [errors |-> r.errors, warnings |-> r.warnings,
             brk |-> Len(r.errors) >= max, raised |-> FALSE]

\* success of the ValidationResult.
ValidationSuccess(errs, warns, strict) ==
    Len(errs) = 0 /\ (~strict \/ Len(warns) = 0)

\* One iteration of the nested loops: run the rule at (cat, idx), then
\* advance, leaving the rule loop on brk and the category loop when the
\* ceiling is reached.
ValidateStep(st, out, max, dt) ==
    LET cats == ValidationRules(dt)
        rule == cats[st.cat][st.idx]
        r == RunRule(st.errors, st.warnings, rule, out, max)
        endCat == r.brk \/ st.idx = Len(cats[st.cat])
        stop == endCat /\ (Len(r.errors) >= max \/ st.cat = Len(cats))
    IN IF r.raised
       THEN [st EXCEPT !.pc = "raised"]
       ELSE [pc |-> IF stop THEN "done" ELSE "run",
             cat |-> IF endCat /\ ~stop THEN st.cat + 1 ELSE st.cat,
             idx |-> IF stop THEN st.idx ELSE IF endCat THEN 1 ELSE st.idx + 1,
             errors |-> r.errors,
             warnings |-> r.warnings]

\* Entry of validate_dataframe: the unknown-data-type early return.
ValidateEnter(dt) ==
    IF dt \notin KnownTypes
    THEN [pc |-> "done", cat |-> 1, idx |-> 1,
          errors |-> << ValidationError("data_type", "critical", NoRule) >>,
          warnings |-> <<>>]
    ELSE [pc |-> "run", cat |-> 1, idx |-> 1, errors |-> <<>>, warnings |-> <<>>]

VIdle == [pc |-> "idle", cat |-> 1, idx |-> 1, errors |-> <<>>, warnings |-> <<>>]

\* Issues the logged invocations produced, in order.
RECURSIVE Produced(_)
Produced(cs) ==
    IF cs = <<>> THEN <<>>
    ELSE (IF Head(cs).out.raises
          THEN << ValidationError("validation_system", "critical", Head(cs).rule) >>
          ELSE RuleErrors(Head(cs).rule, Head(cs).out)) \o Produced(Tail(cs))

ProducedCount(cs) == Len(Produced(cs))

\* The ValidationResult returned for a finished run over n rows.
ValidationResult(st, n, strict) ==
    [success |-> ValidationSuccess(st.errors, st.warnings, strict),
     total_rows |-> n,
     error_count |-> Len(st.errors),
     warning_count |-> Len(st.warnings)]

\* validate_dataframe as a whole, for rule functions behaving as outs says.
\* The state after each iteration is bound as a value (nxt) before the loop
\* goes on, so that it is computed once per iteration.
RECURSIVE ValidateFrom(_, _, _, _)
ValidateFrom(st, outs, max, dt) ==
    IF st.pc # "run" THEN st
    ELSE CHOOSE end \in
            { ValidateFrom(nxt, outs, max, dt) :
                nxt \in { ValidateStep(st, outs[ValidationRules(dt)[st.cat][st.idx]],
                                       max, dt) } } : TRUE

ValidateDataframe(outs, max, dt) == ValidateFrom(ValidateEnter(dt), outs, max, dt)

(***************************************************************************)
(* Input files, rows and tables                                            *)
(***************************************************************************)

Persons == 1..MaxPersons

\* Text of the points cell of a CSV row.
CsvCells == {"10", "20", "inf"}

\* A CSV row: gameId, personId (team_id in a totals file), points.  The
\* first person's rows take every cell text, the others' only "10".
CsvRows == { r \in [gameId : {1}, personId : Persons, points : CsvCells] :
                r.personId = 1 \/ r.points = "10" }

RowFiles == UNION { [1..n -> CsvRows] : n \in 0..MaxRows }

\* Files whose cells all read "10".
PlainFiles == { f \in RowFiles : \A i \in DOMAIN f : f[i].points = "10" }

\* One long file with alternating keys.
LongFile == [i \in 1..LongRows |->
                [gameId |-> 1, personId |-> 1 + (i % MaxPersons), points |-> "10"]]

\* (file, data_type) arguments of a call: box-score files, totals files,
\* and a file whose type is not recognised.
Inputs ==
    { << f, "box_scores" >> : f \in RowFiles } \cup
    { << f, "totals" >> : f \in PlainFiles } \cup
    { << <<>>, "unknown" >> }

LongInputs == { << LongFile, dt >> : dt \in KnownTypes }

\* Box-score files of one row.
SmallInputs == { << f, "box_scores" >> : f \in { g \in RowFiles : Len(g) = 1 } }

\* safe_int on a cell that int() accepts.
SafeInt(cell) == IF cell = "10" THEN 10 ELSE 20

\* int() raises OverflowError on an infinite value; safe_int does not catch it.
SafeIntRaises(cell) == cell = "inf"

\* _box_score_row_to_dict
BoxScoreRowToDict(row) ==
    [game_id |-> row.gameId, person_id |-> row.personId, points |-> SafeInt(row.points)]

\* RowToModelData that stores the default of safe_int for a cell int() rejects.
RowToModelData_Default(row, dt) ==
    IF dt = "box_scores"
    THEN (IF SafeIntRaises(row.points)
          THEN << [game_id |-> row.gameId, person_id |-> row.personId, points |-> 0] >>
          ELSE << BoxScoreRowToDict(row) >>)
    ELSE <<>>

\* _row_to_model_data: <<record>>, or <<>> for None.  _totals_row_to_dict is
\* `pass` and returns None.
RowToModelData(row, dt) ==
    IF dt = "box_scores"
    THEN (IF SafeIntRaises(row.points) THEN <<>> ELSE << BoxScoreRowToDict(row) >>)
    ELSE <<>>

\* model_mappings[..]['primary_keys']
PrimaryKey(r) == << r.game_id, r.person_id >>

TableName(dt) == IF dt = "box_scores" THEN "players_raw" ELSE "teams_raw"

KeysOf(records) == { PrimaryKey(records[i]) : i \in DOMAIN records }

HasDuplicateKeys(records) ==
    \E i, j \in DOMAIN records : i < j /\ PrimaryKey(records[i]) = PrimaryKey(records[j])

\* INSERT ... ON CONFLICT (primary key) DO UPDATE SET every other column.
OnConflictDoUpdate(table, records) ==
    { r \in table : PrimaryKey(r) \notin KeysOf(records) } \cup
    { records[i] : i \in DOMAIN records }

\* The statement is rejected when it would affect one row twice.
UpsertRejected(table, records) == HasDuplicateKeys(records)

\* bulk_insert_mappings: plain INSERT, rejected on a primary key violation.
BulkInsert(table, records) == table \cup { records[i] : i \in DOMAIN records }

BulkInsertRejected(table, records) ==
    \/ HasDuplicateKeys(records)
    \/ \E r \in table : PrimaryKey(r) \in KeysOf(records)

\* The batch rows start_idx .. end_idx of the DataFrame (1-based here).
BatchOf(file, start, bs) ==
    SubSeq(file, start, IF start + bs - 1 < Len(file) THEN start + bs - 1 ELSE Len(file))

RECURSIVE ConvertRows(_, _)
ConvertRows(rows, dt) ==
    IF rows = <<>> THEN <<>>
    ELSE RowToModelData(Head(rows), dt) \o ConvertRows(Tail(rows), dt)

\* Too many insertion errors: the batch loop stops.
MaxInsertionErrors == 100

\* Share of the rows read that validation errors may reach, as 1/N.
ErrorShare == 10

\* stats.validation_errors > stats.total_rows_read * 0.1 (the float product
\* n * 0.1 equals n/10 exactly for every multiple of 10).
TooManyValidationErrors(errs, n) == errs > 0 /\ errs * ErrorShare > n

(***************************************************************************)
(* Ingestion call                                                          *)
(***************************************************************************)

NoSession == [state |-> "none", tx |-> "idle", view |-> {}, opened |-> 0, closed |-> 0,
              ended |-> "none"]

NoCall == [stage |-> "IDLE", wpc |-> "none", file |-> <<>>, outs |-> <<>>,
           start_idx |-> 1, inserted |-> 0, updated |-> 0, skipped |-> 0,
           errors |-> <<>>, faults |-> 0]

EmptyStats == [total_rows_read |-> 0, rows_validated |-> 0, rows_inserted |-> 0,
               rows_updated |-> 0, rows_skipped |-> 0, validation_errors |-> 0,
               validation_warnings |-> 0, ingestion_errors |-> 0]

NoResult == [kind |-> "none", success |-> FALSE, stats |-> EmptyStats, errors |-> <<>>]

NoHist == [ops |-> 0, store0 |-> {}, batches |-> <<>>, stages |-> <<>>,
           prev |-> [kind |-> "none", dt |-> "unknown", keys |-> {}, rows_after |-> 0,
                     clean |-> FALSE, success |-> FALSE]]

Idle == call.stage \in {"IDLE", "COMPLETED", "FAILED"}

\* Rule behaviours an input file with k invalid values causes: the
\* non-negative rule of its type reports k errors, the others nothing.
NoIssues == [raises |-> FALSE, issues |-> <<>>]

ErrorIssues(k) == [raises |-> FALSE, issues |-> [i \in 1..k |-> "error"]]

RuleNames(dt) == { AllRules(dt)[i] : i \in DOMAIN AllRules(dt) }

FileOutcomes(dt, k) ==
    [r \in RuleNames(dt) |->
        IF r \in {"_validate_non_negative_stats", "_validate_non_negative_team_stats"}
        THEN ErrorIssues(k) ELSE NoIssues]

\* Number of error issues the rules report on the file, uncapped.
InputErrorCount(outs, dt) ==
    LET rules == AllRules(dt)
        all == Produced([i \in DOMAIN rules |-> [rule |-> rules[i], out |-> outs[rules[i]]]])
    IN Len(SelectSeq(all, LAMBDA e : IsErrorSeverity(e.severity)))

\* Primary keys of the rows of the file of the running call.
FileKeys == { << call.file[i].gameId, call.file[i].personId >> : i \in DOMAIN call.file }

\* The running call met no store fault, reached the write stage, and its
\* file has one convertible row per key.
CleanCall ==
    /\ result.kind = "ingest"
    /\ call.faults = 0
    /\ \E i \in DOMAIN hist.stages : hist.stages[i] = "WRITING"
    /\ Cardinality(FileKeys) = Len(call.file)
    /\ \A i \in DOMAIN call.file : ~SafeIntRaises(call.file[i].points)

\* Summary of the call that just returned, kept for the next call.
Summary ==
    [kind |-> result.kind, dt |-> data_type, keys |-> FileKeys,
     rows_after |-> IF data_type \in KnownTypes
                    THEN Cardinality(store[TableName(data_type)]) ELSE 0,
     clean |-> CleanCall, success |-> result.success]

\* ingest_csv_file is called: file_path, data_type; stats and errors are fresh.
InvokeWith(inputs, maxOps) ==
    /\ Idle
    /\ hist.ops < maxOps
    /\ \E inp \in inputs :
          /\ call' = [NoCall EXCEPT !.stage = "PENDING", !.file = inp[1]]
          /\ data_type' = inp[2]
          /\ hist' = [ops |-> hist.ops + 1, store0 |-> store[TableName(inp[2])],
                      batches |-> <<>>, stages |-> << "PENDING" >>,
                      prev |-> IF result.kind = "none" THEN hist.prev ELSE Summary]
    /\ result' = [NoResult EXCEPT !.kind = "ingest"]
    /\ session' = NoSession
    /\ v' = VIdle
    /\ UNCHANGED <<avars, wvars>>
    /\ UNCHANGED <<max_errors, strict_mode, calls, validate_data, upsert_mode, dialect,
                   batch_size, store>>

Enter(stage) == [hist EXCEPT !.stages = Append(@, stage)]

\* Step 1 starts: csv_reader.read_csv_file is running.
BeginRead ==
    /\ call.stage = "PENDING"
    /\ call' = [call EXCEPT !.stage = "READING"]
    /\ hist' = Enter("READING")
    /\ UNCHANGED <<avars, wvars>>
    /\ UNCHANGED <<max_errors, strict_mode, data_type, v, calls, validate_data, upsert_mode,
                   dialect, batch_size, store, session, result>>

\* read_csv_file returns: failure (missing file, unknown type, parse error)
\* ends the call; success sets total_rows_read and moves on.
ReadCsvFile ==
    /\ call.stage = "READING"
    /\ \E readable \in BOOLEAN :
          LET ok == readable /\ data_type \in KnownTypes
              next == IF ~ok THEN "FAILED"
                      ELSE IF validate_data THEN "VALIDATING" ELSE "WRITING"
          IN /\ call' = [call EXCEPT !.stage = next,
                                     !.wpc = IF next = "WRITING" THEN "open" ELSE "none"]
             /\ hist' = Enter(next)
             /\ result' = IF ok
                          THEN [result EXCEPT !.stats.total_rows_read = Len(call.file)]
                          ELSE [result EXCEPT !.success = FALSE, !.errors = << "csv" >>]
    /\ UNCHANGED <<avars, wvars>>
    /\ UNCHANGED <<max_errors, strict_mode, data_type, v, calls, validate_data, upsert_mode,
                   dialect, batch_size, store, session>>

\* Step 2: validate_dataframe runs to its end; the call stops when the
\* reported error count is above a tenth of the rows read.
ValidateData ==
    /\ call.stage = "VALIDATING"
    /\ \E outs \in { FileOutcomes(data_type, k) : k \in 0..MaxIssuesPerRule } :
          /\ v' = ValidateDataframe(outs, max_errors, data_type)
          /\ LET vr == ValidationResult(v', Len(call.file), strict_mode)
                 stop == TooManyValidationErrors(vr.error_count,
                                                 result.stats.total_rows_read)
                 next == IF stop THEN "FAILED" ELSE "WRITING"
             IN /\ call' = [call EXCEPT !.stage = next, !.outs = outs,
                                        !.wpc = IF stop THEN "none" ELSE "open"]
                /\ hist' = Enter(next)
                /\ result' = [result EXCEPT
                                 !.stats.rows_validated = vr.total_rows,
                                 !.stats.validation_errors = vr.error_count,
                                 !.stats.validation_warnings = vr.warning_count,
                                 !.success = FALSE,
                                 !.errors = IF stop
                                            THEN << "too_many_validation_errors" >>
                                            ELSE <<>>]
    /\ UNCHANGED <<avars, wvars>>
    /\ UNCHANGED <<max_errors, strict_mode, data_type, calls, validate_data, upsert_mode,
                   dialect, batch_size, store, session>>

\* Finalize that leaves the skipped rows out of the statistics.
Finalize_SkippedDropped(c, errs) ==
    LET success == (c.inserted + c.updated) > 0 /\ Len(errs) = 0
    IN [result EXCEPT !.stats.rows_inserted = c.inserted,
                      !.stats.rows_updated = c.updated,
                      !.stats.ingestion_errors = Len(errs),
                      !.errors = @ \o errs,
                      !.success = success]

\* What the call returns once _insert_dataframe has returned errs and the
\* counters of the frame c: the statistics, success, and the final stage.
Finalize(c, errs) ==
    LET success == (c.inserted + c.updated) > 0 /\ Len(errs) = 0
    IN [result EXCEPT !.stats.rows_inserted = c.inserted,
                      !.stats.rows_updated = c.updated,
                      !.stats.rows_skipped = c.skipped,
                      !.stats.ingestion_errors = Len(errs),
                      !.errors = @ \o errs,
                      !.success = success]

\* FinalStage that leaves a call without success in its write stage.
FinalStage_Stuck(c, errs) ==
    IF (c.inserted + c.updated) > 0 /\ Len(errs) = 0 THEN "COMPLETED" ELSE "WRITING"

\* The stage the call ends in: COMPLETED for a successful result.
FinalStage(c, errs) ==
    IF (c.inserted + c.updated) > 0 /\ Len(errs) = 0 THEN "COMPLETED" ELSE "FAILED"

\* get_session() entered: one session, no transaction begun yet.
OpenSession ==
    /\ call.stage = "WRITING" /\ call.wpc = "open"
    /\ session' = [session EXCEPT !.state = "open", !.opened = @ + 1]
    /\ call' = [call EXCEPT !.wpc = IF Len(call.file) = 0 THEN "commit" ELSE "batch"]
    /\ UNCHANGED <<avars, wvars>>
    /\ UNCHANGED <<max_errors, strict_mode, data_type, v, calls, validate_data, upsert_mode,
                   dialect, batch_size, store, result, hist>>

\* ExceptionExit of a get_session without the finally clause.
ExceptionExit_NoClose(c, kind, log) ==
    /\ session' = [session EXCEPT !.tx = "idle", !.view = {}, !.ended = "rollback"]
    /\ result' = Finalize(c, Append(c.errors, kind))
    /\ call' = [c EXCEPT !.stage = FinalStage(c, Append(c.errors, kind)), !.wpc = "none",
                         !.errors = Append(c.errors, kind)]
    /\ hist' = [hist EXCEPT !.stages = Append(@, FinalStage(c, Append(c.errors, kind))),
                            !.batches = log]
    /\ UNCHANGED store

\* An exception leaves the `with` block: get_session rolls back, closes and
\* re-raises, _insert_dataframe records the error and returns, and
\* ingest_csv_file builds its result.
ExceptionExit(c, kind, log) ==
    /\ session' = [session EXCEPT !.state = "closed", !.tx = "idle", !.view = {},
                                  !.closed = @ + 1, !.ended = "rollback"]
    /\ result' = Finalize(c, Append(c.errors, kind))
    /\ call' = [c EXCEPT !.stage = FinalStage(c, Append(c.errors, kind)), !.wpc = "none",
                         !.errors = Append(c.errors, kind)]
    /\ hist' = [hist EXCEPT !.stages = Append(@, FinalStage(c, Append(c.errors, kind))),
                            !.batches = log]
    /\ UNCHANGED store

\* One iteration of the batch loop: _insert_batch on the next batch_size
\* rows, the counters added up, and the too-many-errors stop.
InsertBatch ==
    /\ call.stage = "WRITING" /\ call.wpc = "batch"
    /\ LET rows == BatchOf(call.file, call.start_idx, batch_size)
           records == ConvertRows(rows, data_type)
           skipped == Len(rows) - Len(records)
           table == IF session.tx = "idle" THEN store[TableName(data_type)]
                    ELSE session.view
           useUpsert == upsert_mode /\ dialect = "postgresql"
           rejected == IF useUpsert THEN UpsertRejected(table, records)
                       ELSE BulkInsertRejected(table, records)
           written == IF useUpsert THEN OnConflictDoUpdate(table, records)
                      ELSE BulkInsert(table, records)
           next == call.start_idx + batch_size
           After(c) == [c EXCEPT !.start_idx = next,
                                 !.wpc = IF Len(c.errors) > MaxInsertionErrors
                                            \/ next > Len(c.file)
                                         THEN "commit" ELSE "batch"]
       IN IF records = <<>>
          THEN \* nothing to write: only the skipped rows are counted
               /\ call' = After([call EXCEPT !.skipped = @ + skipped])
               /\ hist' = [hist EXCEPT !.batches =
                              Append(@, [records |-> records, ok |-> TRUE])]
               /\ UNCHANGED <<session, store, result>>
          ELSE \E fault \in {"none", "sqlalchemy_error", "exception"} :
                 /\ fault # "none" => call.faults < MaxFaults
                 /\ IF fault = "exception"
                    THEN \* not an SQLAlchemyError: it leaves _insert_batch
                         /\ ExceptionExit([call EXCEPT !.faults = @ + 1], "insertion_error",
                                         Append(hist.batches,
                                                [records |-> records, ok |-> FALSE]))
                    ELSE IF session.tx = "aborted" \/ fault = "sqlalchemy_error" \/ rejected
                    THEN \* except SQLAlchemyError: the batch is an error, nothing else
                         /\ \E usable \in BOOLEAN :
                              session' = [session EXCEPT
                                  !.tx = IF usable /\ session.tx = "active"
                                         THEN "active" ELSE "aborted"]
                         /\ call' = After([call EXCEPT
                                             !.skipped = @ + skipped,
                                             !.errors = Append(@, "batch_error"),
                                             !.faults = IF fault = "none" THEN @ ELSE @ + 1])
                         /\ hist' = [hist EXCEPT !.batches =
                                        Append(@, [records |-> records, ok |-> FALSE])]
                         /\ UNCHANGED <<store, result>>
                    ELSE \* the statement ran: inserted = rowcount / len(records)
                         /\ session' = [session EXCEPT !.tx = "active", !.view = written]
                         /\ call' = After([call EXCEPT
                                             !.inserted = @ + Len(records),
                                             !.skipped = @ + skipped])
                         /\ hist' = [hist EXCEPT !.batches =
                                        Append(@, [records |-> records, ok |-> TRUE])]
                         /\ UNCHANGED <<store, result>>
    /\ UNCHANGED <<avars, wvars>>
    /\ UNCHANGED <<max_errors, strict_mode, data_type, v, calls, validate_data, upsert_mode,
                   dialect, batch_size>>

\* session.commit() after the loop.  A transaction a failed statement left
\* aborted is ended without storing anything, silently or with an error.
Commit ==
    /\ call.stage = "WRITING" /\ call.wpc = "commit"
    /\ \E fault \in {"none", "sqlalchemy_error"} :
          /\ fault # "none" => call.faults < MaxFaults /\ session.tx # "idle"
          /\ IF fault # "none"
             THEN ExceptionExit([call EXCEPT !.faults = @ + 1], "database_error", hist.batches)
             ELSE IF session.tx = "aborted"
             THEN \E raises \in BOOLEAN :
                    IF raises
                    THEN ExceptionExit(call, "database_error", hist.batches)
                    ELSE /\ session' = [session EXCEPT !.tx = "idle", !.view = {},
                                                       !.ended = "rollback"]
                         /\ call' = [call EXCEPT !.wpc = "exit"]
                         /\ UNCHANGED <<store, result, hist>>
             ELSE /\ store' = IF session.tx = "active"
                              THEN [store EXCEPT ![TableName(data_type)] = session.view]
                              ELSE store
                  /\ session' = [session EXCEPT !.tx = "idle", !.view = {},
                                                !.ended = "commit"]
                  /\ call' = [call EXCEPT !.wpc = "exit"]
                  /\ UNCHANGED <<result, hist>>
    /\ UNCHANGED <<avars, wvars>>
    /\ UNCHANGED <<max_errors, strict_mode, data_type, v, calls, validate_data, upsert_mode,
                   dialect, batch_size>>

\* The `with` block ends normally: get_session commits (nothing is pending)
\* and closes; _insert_dataframe returns; ingest_csv_file builds its result.
ExitSession ==
    /\ call.stage = "WRITING" /\ call.wpc = "exit"
    /\ session' = [session EXCEPT !.state = "closed", !.closed = @ + 1]
    /\ result' = Finalize(call, call.errors)
    /\ call' = [call EXCEPT !.stage = FinalStage(call, call.errors), !.wpc = "none"]
    /\ hist' = Enter(FinalStage(call, call.errors))
    /\ UNCHANGED <<avars, wvars>>
    /\ UNCHANGED <<max_errors, strict_mode, data_type, v, calls, validate_data, upsert_mode,
                   dialect, batch_size, store>>

(***************************************************************************)
(* Processing stage                                                        *)
(***************************************************************************)

\* process_player_game: the processed record of one raw row.
ProcessPlayerGame(raw) ==
    [game_id |-> raw.game_id, person_id |-> raw.person_id, points |-> raw.points]

\* AlreadyProcessed that never finds the existing record.
AlreadyProcessed_Never(raw, processed) == FALSE

\* The `existing` query: a processed record of the raw row's key.
AlreadyProcessed(raw, processed) ==
    \E p \in processed : PrimaryKey(p) = PrimaryKey(raw)

\* The season's raw rows as the query orders them; the rows of the model
\* carry no game_date, games are numbered in date order.
RECURSIVE OrderedRaws(_)
OrderedRaws(raws) ==
    IF raws = {} THEN <<>>
    ELSE LET first == CHOOSE r \in raws :
                          \A q \in raws :
                              \/ r.game_id < q.game_id
                              \/ r.game_id = q.game_id /\ r.person_id <= q.person_id
         IN << first >> \o OrderedRaws(raws \ {first})

NoFailure == [batch |-> 0, at |-> "none"]

\* The statements of process_season_data that can raise: the query of a
\* batch, and bulk_save_objects / commit of a batch.
Failures(rows, size) ==
    {NoFailure} \cup
    [batch : 1 .. ((Len(rows) + size - 1) \div size + 1), at : {"query", "save"}]

\* The batch loop of process_season_data from the given offset: acc holds the
\* committed processed table and the counters so far.  A statement that
\* raises leaves the loop with the counters as they are; the records of the
\* batch that was being saved are rolled back.
RECURSIVE ProcessBatches(_, _, _, _, _)
ProcessBatches(rows, offset, size, fail, acc) ==
    LET batch == BatchOf(rows, offset + 1, size)
        n == offset \div size + 1
        todo == { i \in DOMAIN batch : ~AlreadyProcessed(batch[i], acc.processed) }
        counted == [acc EXCEPT !.processed_count = @ + Cardinality(todo),
                               !.skipped_count = @ + Len(batch) - Cardinality(todo)]
    IN IF fail = [batch |-> n, at |-> "query"]
       THEN [acc EXCEPT !.raised = TRUE]
       ELSE IF batch = <<>>
       THEN acc
       ELSE IF todo # {} /\ fail = [batch |-> n, at |-> "save"]
       THEN [counted EXCEPT !.raised = TRUE]
       ELSE ProcessBatches(rows, offset + size, size, fail,
                [counted EXCEPT !.processed =
                                   @ \cup { ProcessPlayerGame(batch[i]) : i \in todo }])

\* The batch loop run on the stored processed table with fresh counters.
SeasonRun(rows, fail) ==
    ProcessBatches(rows, 0, batch_size, fail,
                   [processed |-> store.players_processed,
                    processed_count |-> 0, skipped_count |-> 0, raised |-> FALSE])

\* ProcessingResult of the run: success unless a statement raised.
ProcessingResultOf(run) ==
    [kind |-> "process", success |-> ~run.raised,
     stats |-> [processed_count |-> run.processed_count,
                skipped_count |-> run.skipped_count,
                error_count |-> 0],
     errors |-> IF run.raised THEN << "processing_failed" >> ELSE <<>>]

\* process_season_data: raw rows that have a processed record are skipped,
\* the others are processed and stored batch by batch; an exception ends the
\* call with success = False and the counters reached.
ProcessSeasonData ==
    /\ Idle
    /\ hist.ops < MaxOpsP
    /\ LET rows == OrderedRaws(store.players_raw)
       IN \E fail \in Failures(rows, batch_size) :
            \E run \in { SeasonRun(rows, fail) } :
               /\ store' = [store EXCEPT !.players_processed = run.processed]
               /\ result' = ProcessingResultOf(run)
    /\ call' = NoCall
    /\ session' = NoSession
    /\ hist' = [ops |-> hist.ops + 1, store0 |-> store.players_raw, batches |-> <<>>,
                stages |-> <<>>,
                prev |-> IF result.kind = "none" THEN hist.prev ELSE Summary]
    /\ UNCHANGED <<avars, wvars>>
    /\ UNCHANGED <<max_errors, strict_mode, data_type, v, calls, validate_data, upsert_mode,
                   dialect, batch_size>>

(***************************************************************************)
(* Specifications                                                          *)
(***************************************************************************)

EmptyStore == [players_raw |-> {}, teams_raw |-> {}, players_processed |-> {}]

Invoke == InvokeWith(Inputs, MaxOps)

InvokeLong == InvokeWith(LongInputs, 1)

InvokeSmall == InvokeWith(SmallInputs, MaxOpsP)

Unused ==
    /\ data_type = "unknown"
    /\ v = VIdle
    /\ calls = <<>>
    /\ store = EmptyStore
    /\ session = NoSession
    /\ call = NoCall
    /\ result = NoResult
    /\ hist = NoHist
    /\ NoAnalytics

\* A pipeline as create_ingestion_pipeline / the constructor configure it,
\* on an empty store.  max_errors matters only to a pipeline that validates.
Init ==
    /\ max_errors \in 1..MaxErrorsLimit
    /\ strict_mode = FALSE
    /\ validate_data \in BOOLEAN
    /\ ~validate_data => max_errors = 1
    /\ upsert_mode \in BOOLEAN
    /\ dialect \in {"postgresql", "sqlite"}
    /\ batch_size \in 1..MaxBatchSize
    /\ Unused

\* Ingestion of ordinary files, one call after the other.
Next ==
    \/ Invoke
    \/ BeginRead
    \/ ReadCsvFile
    \/ ValidateData
    \/ OpenSession
    \/ InsertBatch
    \/ Commit
    \/ ExitSession

Spec == Init /\ [][Next]_vars

\* Ingestion of the long file, one call.
NextL ==
    \/ InvokeLong
    \/ BeginRead
    \/ ReadCsvFile
    \/ ValidateData
    \/ OpenSession
    \/ InsertBatch
    \/ Commit
    \/ ExitSession

SpecL == Init /\ [][NextL]_vars

\* Ingestion and processing in turn, by a pipeline that upserts row by row
\* into PostgreSQL without validating.
InitP ==
    /\ max_errors = 1
    /\ strict_mode = FALSE
    /\ validate_data = FALSE
    /\ upsert_mode = TRUE
    /\ dialect = "postgresql"
    /\ batch_size = 1
    /\ Unused

NextP ==
    \/ InvokeSmall
    \/ BeginRead
    \/ ReadCsvFile
    \/ OpenSession
    \/ InsertBatch
    \/ Commit
    \/ ExitSession
    \/ ProcessSeasonData

SpecP == InitP /\ [][NextP]_vars

\* A validator on its own, about to validate one DataFrame.
VInit ==
    /\ max_errors \in 1..MaxErrorsLimit
    /\ strict_mode \in BOOLEAN
    /\ data_type \in KnownTypes \cup {"unknown"}
    /\ v = VIdle
    /\ calls = <<>>
    /\ validate_data = TRUE
    /\ upsert_mode = TRUE
    /\ dialect = "postgresql"
    /\ batch_size = 1
    /\ store = EmptyStore
    /\ session = NoSession
    /\ call = NoCall
    /\ result = NoResult
    /\ hist = NoHist
    /\ NoAnalytics

\* validate_dataframe is called.
VStart ==
    /\ v.pc = "idle"
    /\ v' = ValidateEnter(data_type)
    /\ UNCHANGED <<avars, wvars>>
    /\ UNCHANGED <<max_errors, strict_mode, data_type, calls>>
    /\ UNCHANGED ivars

\* The next rule function runs.
VRunRule ==
    /\ v.pc = "run"
    /\ \E room \in { MaxProduced - ProducedCount(calls) } :
       \E out \in { o \in RuleOutcomes :
                        (IF o.raises THEN 1 ELSE Len(o.issues)) <= room } :
          /\ v' = ValidateStep(v, out, max_errors, data_type)
          /\ calls' = Append(calls, [rule |-> ValidationRules(data_type)[v.cat][v.idx],
                                     out |-> out])
    /\ UNCHANGED <<avars, wvars>>
    /\ UNCHANGED <<max_errors, strict_mode, data_type>>
    /\ UNCHANGED ivars

VNext == VStart \/ VRunRule

SpecV == VInit /\ [][VNext]_vars

\* One ingestion call of any file, under weak fairness: a call that can
\* take a step takes it.
InvokeOnce == InvokeWith(Inputs \cup LongInputs, 1)

NextF ==
    \/ InvokeOnce
    \/ BeginRead
    \/ ReadCsvFile
    \/ ValidateData
    \/ OpenSession
    \/ InsertBatch
    \/ Commit
    \/ ExitSession

SpecF == Init /\ [][NextF]_vars /\ WF_vars(NextF)

(***************************************************************************)
(* Metric functions called on one stat line                                *)
(***************************************************************************)

\* Stat lines handed to the defensive score: PlayerGameStats checks nothing,
\* so negative counts and minutes are among them.
DefensiveLines ==
    { [PlayerGameStats EXCEPT !.steals = s, !.blocks = b, !.rebounds_defensive = r,
                              !.fouls_personal = f, !.minutes_played = m] :
        s \in {-1, 0, 1, 5}, b \in {0, 1, 5}, r \in {0, 1, 30},
        f \in {-1, 0, 1, 6}, m \in {-1, 0, 1, 24, 36, 48} }

\* Stat lines handed to the shooting metrics, consistent or not.
ShootingLines ==
    { [PlayerGameStats EXCEPT !.points = p, !.field_goals_made = fgm,
                              !.field_goals_attempted = fga,
                              !.three_pointers_made = tpm,
                              !.free_throws_attempted = fta] :
        p \in {0, 2, 3}, fgm \in {-1, 0, 1, 2}, fga \in {-1, 0, 1, 2},
        tpm \in {0, 1, 2}, fta \in {0, 1} }

Returns(op, value) == [op |-> op, value |-> value]

\* A stat line has been built and no metric has been computed from it yet.
InitM ==
    /\ max_errors = 1
    /\ strict_mode = FALSE
    /\ validate_data = FALSE
    /\ upsert_mode = TRUE
    /\ dialect = "postgresql"
    /\ batch_size = 1
    /\ data_type = "unknown"
    /\ v = VIdle
    /\ calls = <<>>
    /\ store = EmptyStore
    /\ session = NoSession
    /\ call = NoCall
    /\ result = NoResult
    /\ hist = NoHist
    /\ monthly_data = <<>>
    /\ game_data = <<>>
    /\ efficiency_games = <<>>
    /\ alog = <<>>
    /\ stats \in DefensiveLines \cup ShootingLines
    /\ answer = NoAnswer
    /\ NoWork

CalculateDefensiveImpactScore ==
    /\ answer = NoAnswer
    /\ answer' = Returns("calculate_defensive_impact_score",
                         calculate_defensive_impact_score(stats))
    /\ UNCHANGED <<monthly_data, game_data, efficiency_games, alog, stats>>
    /\ UNCHANGED <<vvars, ivars, wvars>>

CalculateEffectiveFieldGoalPercentage ==
    /\ answer = NoAnswer
    /\ answer' = Returns("calculate_effective_field_goal_percentage",
                         calculate_effective_field_goal_percentage(stats))
    /\ UNCHANGED <<monthly_data, game_data, efficiency_games, alog, stats>>
    /\ UNCHANGED <<vvars, ivars, wvars>>

CalculateTrueShootingPercentage ==
    /\ answer = NoAnswer
    /\ answer' = Returns("calculate_true_shooting_percentage",
                         calculate_true_shooting_percentage(stats))
    /\ UNCHANGED <<monthly_data, game_data, efficiency_games, alog, stats>>
    /\ UNCHANGED <<vvars, ivars, wvars>>

NextM ==
    \/ CalculateDefensiveImpactScore
    \/ CalculateEffectiveFieldGoalPercentage
    \/ CalculateTrueShootingPercentage

SpecM == InitM /\ [][NextM]_vars

(***************************************************************************)
(* EfficiencyAnalyzer                                                      *)
(***************************************************************************)

Date(y, m, d) == [year |-> y, month |-> m, day |-> d]

\* The order of datetime.date values.
DateOrdinal(d) == (d.year * 12 + d.month) * 31 + d.day

EfficiencyGame(game_date, ts_pct, st) ==
    [ game_date |-> game_date, true_shooting_pct |-> ts_pct, points |-> st.points,
      field_goal_attempts |-> st.field_goals_attempted,
      minutes_played |-> st.minutes_played ]

\* sorted(games, key=lambda x: x.game_date, reverse=True): a stable sort, games
\* of one date keep the order in which they were appended.
InsertByDateDesc(sorted, g) ==
    LET k == Cardinality({ i \in DOMAIN sorted :
                             DateOrdinal(sorted[i].game_date) >= DateOrdinal(g.game_date) })
    IN  SubSeq(sorted, 1, k) \o << g >> \o SubSeq(sorted, k + 1, Len(sorted))

RECURSIVE SortedByDateDesc(_)
SortedByDateDesc(games) ==
    IF games = <<>> THEN <<>>
    ELSE InsertByDateDesc(SortedByDateDesc(SubSeq(games, 1, Len(games) - 1)),
                          games[Len(games)])

RECURSIVE RSum(_)
RSum(values) ==
    IF values = <<>> THEN Float(0)
    ELSE RAdd(values[1], RSum(Tail(values)))

\* statistics.mean of a non-empty list.
Mean(values) == RDiv(RSum(values), Float(Len(values)))

RECURSIVE RPow(_, _)
RPow(r, i) == IF i = 0 THEN Float(1) ELSE RMul(r, RPow(r, i - 1))

TrueShootingOf(games) == [ i \in DOMAIN games |-> games[i].true_shooting_pct ]

NoLabel == "None"

\* A variant that subtracts the recent half from the earlier half.
detect_efficiency_trend_direction_Swapped(games, window_size) ==
    IF Len(games) < window_size THEN NoLabel
    ELSE LET sorted_games == SortedByDateDesc(games)
             recent_games == SubSeq(sorted_games, 1, window_size)
             mid_point == window_size \div 2
             recent_half == TrueShootingOf(SubSeq(recent_games, 1, mid_point))
             earlier_half == TrueShootingOf(SubSeq(recent_games, mid_point + 1,
                                                   Len(recent_games)))
         IN  IF recent_half = <<>> \/ earlier_half = <<>> THEN NoLabel
             ELSE LET diff == RSub(Mean(earlier_half), Mean(recent_half))
                  IN  IF RLess(Rat(2, 100), diff) THEN "improving"
                      ELSE IF RLess(diff, Rat(-2, 100)) THEN "declining"
                      ELSE "stable"

\* detect_efficiency_trend_direction(window_size), window_size >= 0.
detect_efficiency_trend_direction(games, window_size) ==
    IF Len(games) < window_size THEN NoLabel
    ELSE LET sorted_games == SortedByDateDesc(games)
             recent_games == SubSeq(sorted_games, 1, window_size)
             mid_point == window_size \div 2
             recent_half == TrueShootingOf(SubSeq(recent_games, 1, mid_point))
             earlier_half == TrueShootingOf(SubSeq(recent_games, mid_point + 1,
                                                   Len(recent_games)))
         IN  IF recent_half = <<>> \/ earlier_half = <<>> THEN NoLabel
             ELSE LET diff == RSub(Mean(recent_half), Mean(earlier_half))
                  IN  IF RLess(Rat(2, 100), diff) THEN "improving"
                      ELSE IF RLess(diff, Rat(-2, 100)) THEN "declining"
                      ELSE "stable"

\* calculate_efficiency_trend(recency_weight)
calculate_efficiency_trend(games, recency_weight) ==
    IF games = <<>> THEN None
    ELSE LET sorted_games == SortedByDateDesc(games)
             weights == [ i \in DOMAIN sorted_games |-> RPow(recency_weight, i - 1) ]
             weighted == [ i \in DOMAIN sorted_games |->
                             RMul(sorted_games[i].true_shooting_pct, weights[i]) ]
             weight_sum == RSum(weights)
         IN  IF RLess(Float(0), weight_sum) THEN RDiv(RSum(weighted), weight_sum)
             ELSE None

\* Dates of the games built from stat lines.
EfficiencyDates == { Date(2024, 1, 5), Date(2024, 2, 1) }

\* Stat lines of the games: no attempt at all, one free throw only, and 25
\* field-goal attempts for 25 or 27 points (TS% 0.50 and 0.54).
EfficiencyLines ==
    { [PlayerGameStats EXCEPT !.points = 0, !.minutes_played = 30],
      [PlayerGameStats EXCEPT !.points = 1, !.free_throws_attempted = 1,
                              !.minutes_played = 30],
      [PlayerGameStats EXCEPT !.points = 25, !.field_goals_attempted = 25,
                              !.minutes_played = 30],
      [PlayerGameStats EXCEPT !.points = 27, !.field_goals_attempted = 25,
                              !.minutes_played = 30] }

\* Games handed to add_game ready made (TS% 0.52, on a date of its own).
ReadyGames ==
    { EfficiencyGame(d, Rat(52, 100),
                     [PlayerGameStats EXCEPT !.points = 52, !.field_goals_attempted = 50,
                                             !.minutes_played = 30]) :
        d \in { Date(2024, 1, 9) } }

\* EfficiencyAnalyzer.add_game(game_data)
EffAddGame ==
    /\ Len(alog) < MaxGames
    /\ \E g \in ReadyGames :
          /\ efficiency_games' = Append(efficiency_games, g)
          /\ alog' = Append(alog, [op |-> "add_game", game |-> g])
          /\ answer' = [op |-> "add_game"]
    /\ UNCHANGED <<monthly_data, game_data, stats>>
    /\ UNCHANGED <<vvars, ivars, wvars>>

\* A variant that appends the game whether or not its TS% is defined.
AddGameFromStats_Always ==
    /\ Len(alog) < MaxGames
    /\ \E d \in EfficiencyDates, st \in EfficiencyLines :
          /\ stats' = st
          /\ \E ts_pct \in { calculate_true_shooting_percentage(st) } :
                efficiency_games' = Append(efficiency_games, EfficiencyGame(d, ts_pct, st))
          /\ alog' = Append(alog, [op |-> "add_game_from_stats", game_date |-> d,
                                   stats |-> st])
          /\ answer' = [op |-> "add_game_from_stats"]
    /\ UNCHANGED <<monthly_data, game_data>>
    /\ UNCHANGED <<vvars, ivars, wvars>>

\* EfficiencyAnalyzer.add_game_from_stats(game_date, stats)
AddGameFromStats ==
    /\ Len(alog) < MaxGames
    /\ \E d \in EfficiencyDates, st \in EfficiencyLines :
          /\ stats' = st
          /\ \E ts_pct \in { calculate_true_shooting_percentage(st) } :
                efficiency_games' =
                    IF ts_pct # None
                    THEN Append(efficiency_games, EfficiencyGame(d, ts_pct, st))
                    ELSE efficiency_games
          /\ alog' = Append(alog, [op |-> "add_game_from_stats", game_date |-> d,
                                   stats |-> st])
          /\ answer' = [op |-> "add_game_from_stats"]
    /\ UNCHANGED <<monthly_data, game_data>>
    /\ UNCHANGED <<vvars, ivars, wvars>>

\* EfficiencyAnalyzer.detect_efficiency_trend_direction(window_size)
DetectEfficiencyTrendDirection ==
    /\ \E window_size \in 0..(MaxGames + 1) :
          answer' = [op |-> "detect_efficiency_trend_direction",
                     window_size |-> window_size,
                     value |-> detect_efficiency_trend_direction(efficiency_games,
                                                                 window_size)]
    /\ UNCHANGED <<monthly_data, game_data, efficiency_games, alog, stats>>
    /\ UNCHANGED <<vvars, ivars, wvars>>

\* EfficiencyAnalyzer.calculate_efficiency_trend()
CalculateEfficiencyTrend ==
    /\ answer' = Returns("calculate_efficiency_trend",
                         calculate_efficiency_trend(efficiency_games, Rat(95, 100)))
    /\ UNCHANGED <<monthly_data, game_data, efficiency_games, alog, stats>>
    /\ UNCHANGED <<vvars, ivars, wvars>>

NextE ==
    \/ EffAddGame
    \/ AddGameFromStats
    \/ DetectEfficiencyTrendDirection
    \/ CalculateEfficiencyTrend

SpecE == InitP /\ [][NextE]_vars

(***************************************************************************)
(* TrendAnalyzer                                                           *)
(***************************************************************************)

\* month_key = f"{year}-{month:02d}": one key per (year, month).
MonthKey(d) == << d.year, d.month >>

\* The MonthlyPerformance created for the first game of a month.  Of the
\* averages that are always defined avg_points is kept, of the optional ones
\* avg_true_shooting_pct; the others are updated by the same two formulas.
NewMonthlyPerformance(d, st) ==
    [ year |-> d.year, month |-> d.month, games_played |-> 1,
      avg_points |-> Float(st.points),
      avg_true_shooting_pct |-> calculate_true_shooting_percentage(st) ]

\* The running-average update of an existing MonthlyPerformance.
UpdatedMonthlyPerformance(monthly, st) ==
    LET games == monthly.games_played
        new_games == games + 1
        ts_pct == calculate_true_shooting_percentage(st)
        Running(avg, x) == RDiv(RAdd(RMul(avg, Float(games)), x), Float(new_games))
    IN  [ monthly EXCEPT
            !.avg_points = Running(@, Float(st.points)),
            !.avg_true_shooting_pct =
                IF ts_pct # None
                THEN (IF @ # None THEN Running(@, ts_pct) ELSE ts_pct)
                ELSE @,
            !.games_played = new_games ]

\* A variant that counts the game in every month held.
update_monthly_aggregation_AllMonths(md, d, st) ==
    LET month_key == MonthKey(d)
    IN  [ k \in DOMAIN md \cup {month_key} |->
            IF k \notin DOMAIN md THEN NewMonthlyPerformance(d, st)
            ELSE UpdatedMonthlyPerformance(md[k], st) ]

\* _update_monthly_aggregation(game_date, stats) on the dictionary md.
update_monthly_aggregation(md, d, st) ==
    LET month_key == MonthKey(d)
    IN  [ k \in DOMAIN md \cup {month_key} |->
            IF k # month_key THEN md[k]
            ELSE IF k \notin DOMAIN md THEN NewMonthlyPerformance(d, st)
            ELSE UpdatedMonthlyPerformance(md[k], st) ]

\* sorted(monthly_data.items(), key=(year, month)): the months held, oldest first.
RECURSIVE SortedMonths(_)
SortedMonths(md) ==
    IF DOMAIN md = {} THEN <<>>
    ELSE LET last == CHOOSE k \in DOMAIN md :
                        \A j \in DOMAIN md : j[1] * 12 + j[2] <= k[1] * 12 + k[2]
         IN  Append(SortedMonths([ j \in DOMAIN md \ {last} |-> md[j] ]), md[last])

Reversed(s) == [ i \in DOMAIN s |-> s[Len(s) + 1 - i] ]

\* getattr(monthly_perf, metric, None)
MetricOf(monthly, metric) ==
    IF metric = "avg_points" THEN monthly.avg_points
    ELSE IF metric = "avg_true_shooting_pct" THEN monthly.avg_true_shooting_pct
    ELSE None

\* calculate_weighted_average(metric)
calculate_weighted_average(md, metric, recency_decay) ==
    IF DOMAIN md = {} THEN None
    ELSE LET sorted_months == Reversed(SortedMonths(md))
             have == { i \in DOMAIN sorted_months : MetricOf(sorted_months[i], metric) # None }
             weight == [ i \in DOMAIN sorted_months |->
                           IF i \in have
                           THEN RMul(RPow(recency_decay, i - 1),
                                     Float(sorted_months[i].games_played))
                           ELSE Float(0) ]
             weighted == [ i \in DOMAIN sorted_months |->
                             IF i \in have
                             THEN RMul(MetricOf(sorted_months[i], metric), weight[i])
                             ELSE Float(0) ]
             weight_sum == RSum(weight)
         IN  IF RLess(Float(0), weight_sum) THEN RDiv(RSum(weighted), weight_sum)
             ELSE None

\* The significance threshold of a metric.
TrendThreshold(metric) ==
    IF metric \in {"avg_points", "avg_rebounds", "avg_assists"} THEN Rat(1, 2)
    ELSE IF metric \in {"avg_field_goal_pct", "avg_three_point_pct",
                        "avg_free_throw_pct", "avg_true_shooting_pct"} THEN Rat(1, 100)
    ELSE Rat(1, 10)

\* A variant that compares the slope with 0 instead of the threshold.
detect_trend_direction_NoThreshold(md, metric, min_months) ==
    IF Cardinality(DOMAIN md) < min_months THEN NoLabel
    ELSE LET sorted_months == SortedMonths(md)
             xs == { i \in DOMAIN sorted_months : MetricOf(sorted_months[i], metric) # None }
             Y(i) == MetricOf(sorted_months[i], metric)
             x == [ i \in DOMAIN sorted_months |-> IF i \in xs THEN Float(i - 1) ELSE Float(0) ]
             y == [ i \in DOMAIN sorted_months |-> IF i \in xs THEN Y(i) ELSE Float(0) ]
             n == Float(Cardinality(xs))
             sum_x == RSum(x)
             sum_y == RSum(y)
             sum_xy == RSum([ i \in DOMAIN sorted_months |-> RMul(x[i], y[i]) ])
             sum_x2 == RSum([ i \in DOMAIN sorted_months |-> RMul(x[i], x[i]) ])
             denominator == RSub(RMul(n, sum_x2), RMul(sum_x, sum_x))
         IN  IF Cardinality(xs) < min_months THEN NoLabel
             ELSE IF denominator.n = 0 THEN "stable"
             ELSE LET slope == RDiv(RSub(RMul(n, sum_xy), RMul(sum_x, sum_y)), denominator)
                  IN  IF RLess(Float(0), slope) THEN "improving"
                      ELSE IF RLess(slope, Float(0)) THEN "declining"
                      ELSE "stable"

\* detect_trend_direction(metric, min_months): the data points are (i, value)
\* for the months, oldest first, whose value is not None.
detect_trend_direction(md, metric, min_months) ==
    IF Cardinality(DOMAIN md) < min_months THEN NoLabel
    ELSE LET sorted_months == SortedMonths(md)
             xs == { i \in DOMAIN sorted_months : MetricOf(sorted_months[i], metric) # None }
             Y(i) == MetricOf(sorted_months[i], metric)
             x == [ i \in DOMAIN sorted_months |-> IF i \in xs THEN Float(i - 1) ELSE Float(0) ]
             y == [ i \in DOMAIN sorted_months |-> IF i \in xs THEN Y(i) ELSE Float(0) ]
             n == Float(Cardinality(xs))
             sum_x == RSum(x)
             sum_y == RSum(y)
             sum_xy == RSum([ i \in DOMAIN sorted_months |-> RMul(x[i], y[i]) ])
             sum_x2 == RSum([ i \in DOMAIN sorted_months |-> RMul(x[i], x[i]) ])
             denominator == RSub(RMul(n, sum_x2), RMul(sum_x, sum_x))
             threshold == TrendThreshold(metric)
         IN  IF Cardinality(xs) < min_months THEN NoLabel
             ELSE IF denominator.n = 0 THEN "stable"
             ELSE LET slope == RDiv(RSub(RMul(n, sum_xy), RMul(sum_x, sum_y)), denominator)
                  IN  IF RLess(threshold, slope) THEN "improving"
                      ELSE IF RLess(slope, RSub(Float(0), threshold)) THEN "declining"
                      ELSE "stable"

RECURSIVE Pow10(_)
Pow10(k) == IF k = 0 THEN 1 ELSE 10 * Pow10(k - 1)

\* round(x, digits) for x >= 0: the nearest multiple of 10^-digits, a tie
\* going to the even one.
Round(x, digits) ==
    LET scaled == RMul(x, Float(Pow10(digits)))
        low == scaled.n \div scaled.d
        twice == 2 * (scaled.n - low * scaled.d)
        up == twice > scaled.d \/ (twice = scaled.d /\ low % 2 = 1)
    IN  Rat(IF up THEN low + 1 ELSE low, Pow10(digits))

RECURSIVE SumGames(_)
SumGames(months) ==
    IF months = <<>> THEN 0 ELSE months[1].games_played + SumGames(Tail(months))

\* get_recent_performance(months), months >= 0.
get_recent_performance(md, months) ==
    IF DOMAIN md = {} THEN [error |-> "No monthly data available"]
    ELSE LET all == Reversed(SortedMonths(md))
             sorted_months == SubSeq(all, 1, IF months < Len(all) THEN months ELSE Len(all))
         IN  IF sorted_months = <<>> THEN [error |-> "No recent data available"]
             ELSE LET total_weight == SumGames(sorted_months)
                      Weighted(metric) ==
                          RDiv(RSum([ i \in DOMAIN sorted_months |->
                                        IF MetricOf(sorted_months[i], metric) = None
                                        THEN Float(0)
                                        ELSE RMul(MetricOf(sorted_months[i], metric),
                                                  Float(sorted_months[i].games_played)) ]),
                               Float(total_weight))
                      ts == Weighted("avg_true_shooting_pct")
                  IN  [ months_analyzed |-> Len(sorted_months),
                        total_games |-> total_weight,
                        avg_points |-> Round(Weighted("avg_points"), 1),
                        avg_true_shooting_pct |->
                            IF RLess(Float(0), ts) THEN Round(ts, 3) ELSE None ]

\* get_trend_analysis_summary()
get_trend_analysis_summary(md, recency_decay) ==
    IF DOMAIN md = {} THEN [error |-> "No data available for trend analysis"]
    ELSE LET key_metrics == {"avg_points", "avg_true_shooting_pct"}
             Rounded(value) == IF value = None THEN None ELSE Round(value, 3)
         IN  [ total_months |-> Cardinality(DOMAIN md),
               total_games |-> SumGames(SortedMonths(md)),
               recency_decay_factor |-> recency_decay,
               weighted_averages |->
                   [ m \in key_metrics |->
                       Rounded(calculate_weighted_average(md, m, recency_decay)) ],
               trend_directions |->
                   [ m \in key_metrics |-> detect_trend_direction(md, m, 3) ],
               recent_performance |-> get_recent_performance(md, 3) ]

\* TrendAnalyzer(recency_decay=0.95)
RecencyDecay == Rat(95, 100)

\* TrendAnalyzer.add_game(game_date, stats)
TrendAddGame(d, st) ==
    /\ game_data' = Append(game_data, [game_date |-> d, stats |-> st])
    /\ monthly_data' = update_monthly_aggregation(monthly_data, d, st)
    /\ stats' = st
    /\ answer' = [op |-> "add_game"]
    /\ UNCHANGED <<efficiency_games, alog>>
    /\ UNCHANGED <<vvars, ivars, wvars>>

\* Game dates in two months.
TrendDates == { Date(2024, 1, 5), Date(2024, 2, 1) }

\* Stat lines of the games: 10 points without an attempt (TS% undefined), and
\* 10 or 12 points on 10 field-goal attempts (TS% 0.5 and 0.6).
TrendLines ==
    { [PlayerGameStats EXCEPT !.points = 10],
      [PlayerGameStats EXCEPT !.points = 10, !.field_goals_attempted = 10],
      [PlayerGameStats EXCEPT !.points = 12, !.field_goals_attempted = 10] }

AddGame ==
    /\ Len(game_data) < MaxGames
    /\ \E d \in TrendDates, st \in TrendLines : TrendAddGame(d, st)

TrendMetrics == {"avg_points", "avg_true_shooting_pct"}

\* TrendAnalyzer.calculate_weighted_average(metric)
CalculateWeightedAverage ==
    /\ \E metric \in TrendMetrics :
          answer' = [op |-> "calculate_weighted_average", metric |-> metric,
                     value |-> calculate_weighted_average(monthly_data, metric,
                                                          RecencyDecay)]
    /\ UNCHANGED <<monthly_data, game_data, efficiency_games, alog, stats>>
    /\ UNCHANGED <<vvars, ivars, wvars>>

\* TrendAnalyzer.detect_trend_direction(metric, min_months)
DetectTrendDirectionWith(metrics, min_months_choices) ==
    /\ \E metric \in metrics, min_months \in min_months_choices :
          answer' = [op |-> "detect_trend_direction", metric |-> metric,
                     min_months |-> min_months,
                     value |-> detect_trend_direction(monthly_data, metric, min_months)]
    /\ UNCHANGED <<monthly_data, game_data, efficiency_games, alog, stats>>
    /\ UNCHANGED <<vvars, ivars, wvars>>

DetectTrendDirection == DetectTrendDirectionWith(TrendMetrics, {2, 3})

\* TrendAnalyzer.get_recent_performance(months)
GetRecentPerformance ==
    /\ \E months \in {1, 3} :
          answer' = [op |-> "get_recent_performance", months |-> months,
                     value |-> get_recent_performance(monthly_data, months)]
    /\ UNCHANGED <<monthly_data, game_data, efficiency_games, alog, stats>>
    /\ UNCHANGED <<vvars, ivars, wvars>>

\* TrendAnalyzer.get_trend_analysis_summary()
GetTrendAnalysisSummary ==
    /\ answer' = Returns("get_trend_analysis_summary",
                         get_trend_analysis_summary(monthly_data, RecencyDecay))
    /\ UNCHANGED <<monthly_data, game_data, efficiency_games, alog, stats>>
    /\ UNCHANGED <<vvars, ivars, wvars>>

NextT ==
    \/ AddGame
    \/ CalculateWeightedAverage
    \/ DetectTrendDirection
    \/ GetRecentPerformance
    \/ GetTrendAnalysisSummary

SpecT == InitP /\ [][NextT]_vars

(***************************************************************************)
(* TrendAnalyzer over a season of five months                              *)
(***************************************************************************)

SeasonMonths == 1..5

\* Stat lines of the season's games: 10, 11 or 12 points.
SeasonLines == { [PlayerGameStats EXCEPT !.points = p] : p \in {10, 11, 12} }

\* The games held for month m of the season.
GamesIn(m) ==
    IF << 2024, m >> \in DOMAIN monthly_data
    THEN monthly_data[<< 2024, m >>].games_played ELSE 0

\* The games of the season are added in the order of the calendar, one or
\* two a month, no month left out.
AddSeasonGame ==
    /\ Len(game_data) < MaxSeasonGames
    /\ \E m \in SeasonMonths :
          /\ GamesIn(m) < 2
          /\ \A j \in SeasonMonths : (j < m => GamesIn(j) > 0) /\ (j > m => GamesIn(j) = 0)
          /\ \E st \in SeasonLines : TrendAddGame(Date(2024, m, GamesIn(m) + 1), st)

\* detect_trend_direction("avg_points") with the default min_months, asked
\* once after a game was added.
DetectPointsTrend ==
    /\ answer.op = "add_game"
    /\ DetectTrendDirectionWith({"avg_points"}, {3})

NextD ==
    \/ AddSeasonGame
    \/ DetectPointsTrend

SpecD == InitP /\ [][NextD]_vars

(***************************************************************************)
(* Validator: the rebounds consistency rule                                *)
(***************************************************************************)

MaxFrameRows == 2        \* longest frame the rule is applied to, in rows

\* A cell of a numeric column as read_csv delivers it: a number, or NaN
\* for an empty cell.
NaN == [nan |-> TRUE, value |-> 0]

Cell(i) == [nan |-> FALSE, value |-> i]

\* Series + Series, element by element: NaN wherever an operand is NaN.
CellAdd(a, b) == IF a.nan \/ b.nan THEN NaN ELSE Cell(a.value + b.value)

\* Series != Series, element by element: NaN is unequal to everything.
CellNotEqual(a, b) == a.nan \/ b.nan \/ a.value # b.value

ReboundCols == {"reboundsOffensive", "reboundsDefensive", "reboundsTotal"}

\* ValidationError(field="rebounds", severity=ERROR, row_index=idx)
ReboundsIssue(idx) == [field |-> "rebounds", severity |-> "error", row_index |-> idx]

\* The issues of the rows from index i on, in index order.
RECURSIVE MismatchedFrom(_, _)
MismatchedFrom(frame, i) ==
    IF i > Len(frame.rows) THEN <<>>
    ELSE LET row == frame.rows[i]
             calculated_total == CellAdd(row.reboundsOffensive, row.reboundsDefensive)
         IN (IF CellNotEqual(row.reboundsTotal, calculated_total)
             THEN << ReboundsIssue(i) >> ELSE <<>>) \o MismatchedFrom(frame, i + 1)

\* _validate_rebounds_consistency that also flags the rows that agree.
validate_rebounds_consistency_All(frame) ==
    IF ReboundCols \subseteq frame.columns
    THEN [ i \in DOMAIN frame.rows |-> ReboundsIssue(i) ]
    ELSE <<>>

\* _validate_rebounds_consistency
validate_rebounds_consistency(frame) ==
    IF ReboundCols \subseteq frame.columns
    THEN MismatchedFrom(frame, 1)
    ELSE <<>>

\* The cells of the explored frames: empty, or a small count.
ReboundCells == {NaN, Cell(0), Cell(1)}

TotalCells == ReboundCells \cup {Cell(2)}

ReboundRows ==
    [reboundsOffensive : ReboundCells, reboundsDefensive : ReboundCells,
     reboundsTotal : TotalCells]

\* Frames with the three rebound columns, and frames without the total.
ReboundFrames ==
    UNION { [columns : {ReboundCols}, rows : [1 .. n -> ReboundRows]] :
                n \in 0 .. MaxFrameRows }
    \cup { [columns |-> ReboundCols \ {"reboundsTotal"},
            rows |-> << [reboundsOffensive |-> Cell(1), reboundsDefensive |-> Cell(0)] >>] }

\* A validator about to apply the rule to one frame.
InitR ==
    /\ max_errors = 1
    /\ strict_mode = FALSE
    /\ validate_data = TRUE
    /\ upsert_mode = TRUE
    /\ dialect = "postgresql"
    /\ batch_size = 1
    /\ data_type = "box_scores"
    /\ v = VIdle
    /\ calls = <<>>
    /\ store = EmptyStore
    /\ session = NoSession
    /\ call = NoCall
    /\ result = NoResult
    /\ hist = NoHist
    /\ monthly_data = <<>>
    /\ game_data = <<>>
    /\ efficiency_games = <<>>
    /\ alog = <<>>
    /\ stats = PlayerGameStats
    /\ answer = NoAnswer
    /\ df \in ReboundFrames
    /\ pipeline = NoPipeline
    /\ workflow = <<>>
    /\ execution = NoExecution
    /\ wf = NoFrameOfExecute
    /\ invoked = <<>>
    /\ cancels = <<>>

ValidateReboundsConsistency ==
    /\ answer = NoAnswer
    /\ answer' = Returns("_validate_rebounds_consistency", validate_rebounds_consistency(df))
    /\ UNCHANGED <<vvars, ivars, wvars>>
    /\ UNCHANGED <<monthly_data, game_data, efficiency_games, alog, stats>>

NextR == ValidateReboundsConsistency

SpecR == InitR /\ [][NextR]_vars

(***************************************************************************)
(* Workflow manager                                                        *)
(***************************************************************************)

MaxDependencies == 2     \* longest dependency list of an explored task
MaxCancels == 2          \* cancel_workflow calls in one behaviour

\* WorkflowTask: name and dependencies; what task_function does is decided
\* when it is invoked.
WorkflowTask(name, dependencies) == [name |-> name, dependencies |-> dependencies]

\* The keys of self.tasks; tasks holds the values in insertion order.
TaskNames(tasks) == { tasks[i].name : i \in DOMAIN tasks }

\* self.tasks[task_name]
TaskNamed(tasks, name) ==
    tasks[CHOOSE i \in DOMAIN tasks : tasks[i].name = name]

\* validate_dependencies: the (task, dependency) pairs whose dependency names
\* no task; the code returns one message for each.
validate_dependencies(tasks) ==
    { e \in UNION { { << tasks[i].name, tasks[i].dependencies[k] >> :
                          k \in DOMAIN tasks[i].dependencies } : i \in DOMAIN tasks } :
          e[2] \notin TaskNames(tasks) }

\* visit(task_name) of get_execution_order on the state st of visited,
\* temp_visited and order; raised once a circular dependency was detected
\* (ValueError) or self.tasks has no such task (KeyError).
RECURSIVE visit(_, _, _), VisitDependencies(_, _, _)
visit(tasks, task_name, st) ==
    IF st.raised THEN st
    ELSE IF task_name \in st.temp_visited THEN [st EXCEPT !.raised = TRUE]
    ELSE IF task_name \in st.visited THEN st
    ELSE IF task_name \notin TaskNames(tasks) THEN [st EXCEPT !.raised = TRUE]
    ELSE LET after == VisitDependencies(tasks, TaskNamed(tasks, task_name).dependencies,
                          [st EXCEPT !.temp_visited = @ \cup {task_name}])
         IN IF after.raised THEN after
            ELSE [after EXCEPT !.temp_visited = @ \ {task_name},
                               !.visited = @ \cup {task_name},
                               !.order = Append(@, task_name)]

VisitDependencies(tasks, dependencies, st) ==
    IF dependencies = <<>> THEN st
    ELSE VisitDependencies(tasks, Tail(dependencies), visit(tasks, Head(dependencies), st))

RECURSIVE VisitFrom(_, _, _)
VisitFrom(tasks, i, st) ==
    IF i > Len(tasks) THEN st
    ELSE VisitFrom(tasks, i + 1, visit(tasks, tasks[i].name, st))

\* get_execution_order that appends a task before it visits its dependencies.
get_execution_order_TaskFirst(tasks) ==
    [raised |-> VisitFrom(tasks, 1, [visited |-> {}, temp_visited |-> {}, order |-> <<>>,
                                     raised |-> FALSE]).raised,
     order |-> [ i \in DOMAIN tasks |-> tasks[i].name ]]

\* get_execution_order: the order, or raised for a circular dependency.
get_execution_order(tasks) ==
    LET st == VisitFrom(tasks, 1, [visited |-> {}, temp_visited |-> {}, order |-> <<>>,
                                   raised |-> FALSE])
    IN [raised |-> st.raised, order |-> st.order]

\* execute_workflow is called: the execution is created PENDING with
\* started_at set and registered in active_executions.
ExecuteWorkflow ==
    /\ wf.pc = "none" /\ execution.status = "none"
    /\ execution' = [NoExecution EXCEPT !.status = "PENDING", !.started_at = TRUE]
    /\ wf' = [NoFrameOfExecute EXCEPT !.pc = "validate"]
    /\ UNCHANGED <<workflow, invoked, cancels>>
    /\ UNCHANGED <<vvars, ivars, avars, df, pipeline>>

\* The except clauses of execute_workflow: FAILED, the message, completed_at.
Failed(message) ==
    [execution EXCEPT !.status = "FAILED", !.error_message = message,
                      !.completed_at = TRUE]

\* validate_dependencies and get_execution_order: a missing or circular
\* dependency raises ValueError, otherwise the execution is RUNNING.
ValidateAndOrder ==
    /\ wf.pc = "validate"
    /\ \E ordered \in { get_execution_order(workflow) } :
          IF validate_dependencies(workflow) # {}
          THEN /\ execution' = Failed("Workflow validation failed")
               /\ wf' = [wf EXCEPT !.pc = "returned"]
          ELSE IF ordered.raised
          THEN /\ execution' = Failed("Circular dependency detected")
               /\ wf' = [wf EXCEPT !.pc = "returned"]
          ELSE /\ execution' = [execution EXCEPT !.status = "RUNNING"]
               /\ wf' = [wf EXCEPT !.pc = "loop", !.execution_order = ordered.order,
                                   !.i = 1]
    /\ UNCHANGED <<workflow, invoked, cancels>>
    /\ UNCHANGED <<vvars, ivars, avars, df, pipeline>>

\* The loop reaches the next task: task.task_function(**task.parameters) is
\* called.
InvokeTask ==
    /\ wf.pc = "loop" /\ wf.i <= Len(wf.execution_order)
    /\ invoked' = Append(invoked, [task |-> wf.execution_order[wf.i],
                                   outcome |-> "running",
                                   status |-> execution.status])
    /\ wf' = [wf EXCEPT !.pc = "task"]
    /\ UNCHANGED <<workflow, execution, cancels>>
    /\ UNCHANGED <<vvars, ivars, avars, df, pipeline>>

\* The task function returns: its result is kept and progress updated.
TaskReturns ==
    /\ wf.pc = "task"
    /\ invoked' = [invoked EXCEPT ![Len(invoked)].outcome = "returned"]
    /\ execution' = [execution EXCEPT !.progress = Rat(wf.i, Len(wf.execution_order))]
    /\ wf' = [wf EXCEPT !.pc = "loop", !.i = @ + 1,
                        !.task_results = @ \cup {wf.execution_order[wf.i]}]
    /\ UNCHANGED <<workflow, cancels>>
    /\ UNCHANGED <<vvars, ivars, avars, df, pipeline>>

\* TaskRaises that logs the failure and goes on with the next task.
TaskRaises_GoesOn ==
    /\ wf.pc = "task"
    /\ invoked' = [invoked EXCEPT ![Len(invoked)].outcome = "raised"]
    /\ wf' = [wf EXCEPT !.pc = "loop", !.i = @ + 1]
    /\ UNCHANGED <<workflow, execution, cancels>>
    /\ UNCHANGED <<vvars, ivars, avars, df, pipeline>>

\* The task function raises: the execution is FAILED and returned.
TaskRaises ==
    /\ wf.pc = "task"
    /\ invoked' = [invoked EXCEPT ![Len(invoked)].outcome = "raised"]
    /\ execution' = Failed("Task failed")
    /\ wf' = [wf EXCEPT !.pc = "returned"]
    /\ UNCHANGED <<workflow, cancels>>
    /\ UNCHANGED <<vvars, ivars, avars, df, pipeline>>

\* The loop is over: COMPLETED, progress 1.0, the task results.
CompleteWorkflow ==
    /\ wf.pc = "loop" /\ wf.i > Len(wf.execution_order)
    /\ execution' = [execution EXCEPT !.status = "COMPLETED", !.progress = Float(1),
                                      !.results = [is_none |-> FALSE,
                                                   keys |-> wf.task_results],
                                      !.completed_at = TRUE]
    /\ wf' = [wf EXCEPT !.pc = "returned"]
    /\ UNCHANGED <<workflow, invoked, cancels>>
    /\ UNCHANGED <<vvars, ivars, avars, df, pipeline>>

\* cancel_workflow(workflow_id), from another thread or after the run: True
\* and CANCELLED for a RUNNING execution, False otherwise.
CancelWorkflow ==
    /\ Len(cancels) < MaxCancels
    /\ LET found == execution.status = "RUNNING" IN
       /\ execution' = IF found
                       THEN [execution EXCEPT !.status = "CANCELLED",
                                              !.completed_at = TRUE]
                       ELSE execution
       /\ cancels' = Append(cancels, [returned |-> found, status |-> execution.status,
                                      invoked |-> Len(invoked)])
    /\ UNCHANGED <<workflow, wf, invoked>>
    /\ UNCHANGED <<vvars, ivars, avars, df, pipeline>>

\* Dependency lists of the explored tasks: names of tasks of the workflow
\* or of no task, without repetition.
DependencyTargets == {"a", "b", "c", "missing"}

DependencyLists ==
    { d \in UNION { [1 .. n -> DependencyTargets] : n \in 0 .. MaxDependencies } :
          \A j, k \in DOMAIN d : j # k => d[j] # d[k] }

ExploredNames == << "a", "b", "c" >>

\* create_nba_data_processing_workflow
NBADataProcessingWorkflow ==
    << WorkflowTask("initialize_pipeline", <<>>),
       WorkflowTask("validate_data_directory", <<>>),
       WorkflowTask("process_nba_dataset",
                    << "initialize_pipeline", "validate_data_directory" >>),
       WorkflowTask("generate_summary_report", << "process_nba_dataset" >>) >>

\* Workflows of up to three tasks, added in the order a, b, c, and the NBA
\* data processing workflow.
Workflows ==
    { [ i \in 1 .. n |-> WorkflowTask(ExploredNames[i], deps[i]) ] :
          n \in 0 .. Len(ExploredNames), deps \in [DOMAIN ExploredNames -> DependencyLists] }
    \cup {NBADataProcessingWorkflow}

\* A manager with one workflow to execute and no execution yet.
InitW ==
    /\ max_errors = 1
    /\ strict_mode = FALSE
    /\ validate_data = FALSE
    /\ upsert_mode = TRUE
    /\ dialect = "postgresql"
    /\ batch_size = 1
    /\ data_type = "unknown"
    /\ v = VIdle
    /\ calls = <<>>
    /\ store = EmptyStore
    /\ session = NoSession
    /\ call = NoCall
    /\ result = NoResult
    /\ hist = NoHist
    /\ monthly_data = <<>>
    /\ game_data = <<>>
    /\ efficiency_games = <<>>
    /\ alog = <<>>
    /\ stats = PlayerGameStats
    /\ answer = NoAnswer
    /\ df = NoFrame
    /\ workflow \in Workflows
    /\ pipeline = NoPipeline
    /\ execution = NoExecution
    /\ wf = NoFrameOfExecute
    /\ invoked = <<>>
    /\ cancels = <<>>

\* execute_workflow on its own.
NextW ==
    \/ ExecuteWorkflow
    \/ ValidateAndOrder
    \/ InvokeTask
    \/ TaskReturns
    \/ TaskRaises
    \/ CompleteWorkflow

SpecW == InitW /\ [][NextW]_vars

\* execute_workflow with cancel_workflow calls from another thread.
NextC ==
    \/ NextW
    \/ CancelWorkflow

SpecC == InitW /\ [][NextC]_vars

(***************************************************************************)
(* Data processing pipeline                                                *)
(***************************************************************************)

MaxFiles == 2            \* most CSV files the data directory holds

\* A totals file of one row.
TotalsInputs == { << f, "totals" >> : f \in { g \in PlainFiles : Len(g) = 1 } }

\* _discover_csv_files: the categorized files of the directory, sorted by
\* name.
DiscoveredFiles ==
    UNION { [1 .. n -> SmallInputs \cup TotalsInputs] : n \in 1 .. MaxFiles }

\* process_nba_dataset is called: the result lists are empty and the files
\* of the directory are discovered.
ProcessNbaDataset ==
    /\ pipeline.pc = "none" /\ Idle /\ hist.ops = 0
    /\ \E csv_files \in DiscoveredFiles :
          pipeline' = [pipeline EXCEPT !.pc = "ingest", !.csv_files = csv_files, !.next = 1]
    /\ UNCHANGED <<vvars, ivars, avars>>
    /\ UNCHANGED <<df, workflow, execution, wf, invoked, cancels>>

\* The ingestion loop calls ingest_csv_file on the next file.
IngestNextFile ==
    /\ pipeline.pc = "ingest" /\ pipeline.next <= Len(pipeline.csv_files)
    /\ LET inp == pipeline.csv_files[pipeline.next] IN
       /\ call' = [NoCall EXCEPT !.stage = "PENDING", !.file = inp[1]]
       /\ data_type' = inp[2]
       /\ hist' = [ops |-> hist.ops + 1, store0 |-> store[TableName(inp[2])],
                   batches |-> <<>>, stages |-> << "PENDING" >>,
                   prev |-> IF result.kind = "none" THEN hist.prev ELSE Summary]
    /\ result' = [NoResult EXCEPT !.kind = "ingest"]
    /\ session' = NoSession
    /\ v' = VIdle
    /\ pipeline' = [pipeline EXCEPT !.pc = "ingesting"]
    /\ UNCHANGED <<max_errors, strict_mode, calls, validate_data, upsert_mode, dialect,
                   batch_size, store>>
    /\ UNCHANGED avars
    /\ UNCHANGED <<df, workflow, execution, wf, invoked, cancels>>

\* ingest_csv_file has returned: the result is appended, and its errors are
\* collected if it is not successful.
CollectIngestionResult ==
    /\ pipeline.pc = "ingesting" /\ call.stage \in {"COMPLETED", "FAILED"}
    /\ pipeline' = [pipeline EXCEPT
                       !.pc = IF pipeline.next < Len(pipeline.csv_files)
                              THEN "ingest" ELSE "process",
                       !.next = @ + 1,
                       !.ingestion_results = Append(@, result),
                       !.errors = IF result.success THEN @ ELSE @ \o result.errors]
    /\ UNCHANGED <<vvars, ivars, avars>>
    /\ UNCHANGED <<df, workflow, execution, wf, invoked, cancels>>

\* PipelineResult of the normal return.
PipelineResult(ingestion_results, processing_results, errors) ==
    [success |-> Len(errors) = 0,
     ingestion_results |-> ingestion_results,
     processing_results |-> processing_results,
     errors |-> errors]

\* The except clause of process_nba_dataset.
PipelineFailure(ingestion_results, processing_results, errors) ==
    [success |-> FALSE,
     ingestion_results |-> ingestion_results,
     processing_results |-> processing_results,
     errors |-> Append(errors, "pipeline_failed")]

\* Phase 2 and the return: _get_ingested_seasons, process_season_data for
\* each season (the rows of the model are of one season), and the summary.
ProcessSeasonsAndReturn ==
    /\ pipeline.pc = "process"
    /\ \E seasons_read \in BOOLEAN :
          IF ~seasons_read
          THEN \* _get_ingested_seasons raises
               /\ pipeline' = [pipeline EXCEPT
                                  !.pc = "returned",
                                  !.outcome = PipelineFailure(pipeline.ingestion_results,
                                                              <<>>, pipeline.errors)]
               /\ UNCHANGED <<store, result, hist, call, session>>
          ELSE IF store.players_raw = {}
          THEN /\ pipeline' = [pipeline EXCEPT
                                  !.pc = "returned",
                                  !.outcome = PipelineResult(pipeline.ingestion_results,
                                                             <<>>, pipeline.errors)]
               /\ UNCHANGED <<store, result, hist, call, session>>
          ELSE LET rows == OrderedRaws(store.players_raw) IN
               \E fail \in Failures(rows, batch_size) :
               \E run \in { SeasonRun(rows, fail) } :
               \E processed \in { ProcessingResultOf(run) } :
                  /\ store' = [store EXCEPT !.players_processed = run.processed]
                  /\ result' = processed
                  /\ call' = NoCall
                  /\ session' = NoSession
                  /\ hist' = [ops |-> hist.ops + 1, store0 |-> store.players_raw,
                              batches |-> <<>>, stages |-> <<>>,
                              prev |-> IF result.kind = "none" THEN hist.prev ELSE Summary]
                  /\ pipeline' = [pipeline EXCEPT
                        !.pc = "returned",
                        !.processing_results = << processed >>,
                        !.errors = IF processed.success THEN @ ELSE @ \o processed.errors,
                        !.outcome = PipelineResult(
                            pipeline.ingestion_results, << processed >>,
                            IF processed.success THEN pipeline.errors
                            ELSE pipeline.errors \o processed.errors)]
    /\ UNCHANGED <<max_errors, strict_mode, data_type, v, calls, validate_data, upsert_mode,
                   dialect, batch_size>>
    /\ UNCHANGED avars
    /\ UNCHANGED <<df, workflow, execution, wf, invoked, cancels>>

\* process_nba_dataset on an empty store.
NextN ==
    \/ ProcessNbaDataset
    \/ IngestNextFile
    \/ BeginRead
    \/ ReadCsvFile
    \/ OpenSession
    \/ InsertBatch
    \/ Commit
    \/ ExitSession
    \/ CollectIngestionResult
    \/ ProcessSeasonsAndReturn

SpecN == InitP /\ [][NextN]_vars

(***************************************************************************)
(* Claims                                                                  *)
(***************************************************************************)

\* An ingest_csv_file call has returned its IngestionResult.
Returned == result.kind = "ingest" /\ call.stage \in {"COMPLETED", "FAILED"}

Reached(stage) == \E i \in DOMAIN hist.stages : hist.stages[i] = stage

UseUpsert == upsert_mode /\ dialect = "postgresql"

\* The record the upsert contract expects in the table for a CSV row.
ExpectedRow(row) == BoxScoreRowToDict(row)

\* The running call re-ingests, without store fault, exactly the keys the
\* previous call ingested without store fault.
Reingest ==
    /\ Returned
    /\ CleanCall
    /\ hist.prev.kind = "ingest"
    /\ hist.prev.clean
    /\ hist.prev.dt = data_type
    /\ hist.prev.keys = FileKeys
    /\ FileKeys # {}

\* C1: ingesting a batch and then a batch with exactly the same primary keys
\* (box scores or totals) leaves the row count as it was after the first
\* ingestion, every row of the second batch is stored with its values, and
\* the second call does not fail.
C1_ReingestReplacesRows ==
    (Reingest /\ UseUpsert) =>
        /\ result.success
        /\ Cardinality(store[TableName(data_type)]) = hist.prev.rows_after
        /\ \A i \in DOMAIN call.file : ExpectedRow(call.file[i]) \in store[TableName(data_type)]

\* C2: ingesting n box-score rows with absent keys reports rows_inserted = n,
\* rows_updated = 0 and no errors; re-ingesting rows with the same n keys
\* reports rows_inserted = 0 and rows_updated = n.
C2_InsertedThenUpdatedCounts ==
    /\ (Returned /\ CleanCall /\ data_type = "box_scores"
          /\ \A r \in hist.store0 : PrimaryKey(r) \notin FileKeys) =>
            /\ result.stats.rows_inserted = Len(call.file)
            /\ result.stats.rows_updated = 0
            /\ result.stats.ingestion_errors = 0
    /\ (Reingest /\ UseUpsert /\ data_type = "box_scores") =>
            /\ result.stats.rows_inserted = 0
            /\ result.stats.rows_updated = Len(call.file)

\* The table after the batches whose write succeeded, and only those, took
\* effect in order.
RECURSIVE ApplyBatches(_, _)
ApplyBatches(table, bs) ==
    IF bs = <<>> THEN table
    ELSE ApplyBatches(IF Head(bs).ok /\ Head(bs).records # <<>>
                      THEN (IF UseUpsert THEN OnConflictDoUpdate(table, Head(bs).records)
                            ELSE BulkInsert(table, Head(bs).records))
                      ELSE table,
                      Tail(bs))

NumBatches(n, bs) == (n + bs - 1) \div bs

FailedBatches == { i \in DOMAIN hist.batches : ~hist.batches[i].ok }

\* C3: in one ingestion call a batch whose write fails stores none of its
\* rows and is counted as an error, every other batch is still attempted,
\* and every batch whose write succeeds has all its rows committed.
C3_BatchesAllOrNothing ==
    (Returned /\ Reached("WRITING")) =>
        /\ Len(hist.batches) = NumBatches(Len(call.file), batch_size)
        /\ result.stats.ingestion_errors >= Cardinality(FailedBatches)
        /\ store[TableName(data_type)] = ApplyBatches(hist.store0, hist.batches)

StageRank(stage) ==
    CASE stage = "PENDING" -> 1
      [] stage = "READING" -> 2
      [] stage = "VALIDATING" -> 3
      [] stage = "WRITING" -> 4
      [] stage \in {"COMPLETED", "FAILED"} -> 5
      [] OTHER -> 0

\* The stages a call has entered are in strictly ascending order (so none
\* is entered twice), the call is in the last of them, and no batch is
\* written twice.
StagesAscend ==
    /\ \A i, j \in DOMAIN hist.stages :
          i < j => StageRank(hist.stages[i]) < StageRank(hist.stages[j])
    /\ hist.stages # <<>> => call.stage = hist.stages[Len(hist.stages)]
    /\ Len(hist.batches) <= NumBatches(Len(call.file), batch_size)

\* A step of a running call never moves to an earlier stage.
StageStep ==
    (call.stage \in {"PENDING", "READING", "VALIDATING", "WRITING"} /\ call'.stage # call.stage)
        => StageRank(call'.stage) > StageRank(call.stage)

C5_ErrorShareDecides ==
    (Returned /\ Reached("VALIDATING")) =>
        IF InputErrorCount(call.outs, data_type) * ErrorShare > Len(call.file)
        THEN ~result.success /\ ~Reached("WRITING") /\ store = EmptyStore
        ELSE Reached("WRITING")

\* C6: after a raw row was re-ingested with changed stats and the processing
\* stage has run again, the processed record of the same key carries the
\* values of the stored raw row.
C6_ProcessedFollowsRaw ==
    (result.kind = "process" /\ result.success) =>
        \A p \in store.players_processed :
            \E r \in store.players_raw :
                PrimaryKey(r) = PrimaryKey(p) /\ p = ProcessPlayerGame(r)

\* At most one session per call, never closed more often than opened.
SessionReleased ==
    /\ session.opened <= 1
    /\ session.closed <= session.opened
    /\ Returned =>
          /\ session.closed = session.opened
          /\ session.state # "open"
          /\ session.tx = "idle"
          /\ session.opened = 1 => session.ended \in {"commit", "rollback"}

\* C7 as stated: every ingestion call opens exactly one session, which is
\* committed or rolled back and closed exactly once when the call returns.
C7_ExactlyOneSessionPerCall ==
    SessionReleased /\ (Returned => session.opened = 1)

\* C7, amended: a call that reaches the write stage opens exactly one
\* session and a call that ends earlier opens none; on every exit path the
\* session is committed or rolled back and then closed exactly once.
C7_OneSessionPerWritingCall ==
    SessionReleased /\ (Returned => (session.opened = 1 <=> Reached("WRITING")))

C7_Witness ==
    /\ Returned
    /\ session.opened = 1 /\ session.closed = 1 /\ session.ended = "rollback"
    /\ \E i \in DOMAIN call.errors : call.errors[i] = "database_error"

\* C8: the error list of validate_dataframe never holds more than
\* max_errors entries, whatever the rule functions return or raise.
C8_ErrorCountWithinMax == Len(v.errors) <= max_errors

\* Rules whose invocation raised.
RaisedRules == { calls[i].rule : i \in { j \in DOMAIN calls : calls[j].out.raises } }

CriticalsOf(rule) ==
    Cardinality({ i \in DOMAIN v.errors :
                    v.errors[i].rule = rule /\ v.errors[i].severity = "critical" })

\* Every rule of the data type has run, in registry order.
AllRulesRan ==
    /\ Len(calls) = Len(AllRules(data_type))
    /\ \A i \in DOMAIN calls : calls[i].rule = AllRules(data_type)[i]

\* The exception of a rule stays inside validate_dataframe and becomes one
\* CRITICAL issue carrying the rule's name.
RaiseBecomesIssue ==
    /\ v.pc # "raised"
    /\ \A rule \in RaisedRules : CriticalsOf(rule) = 1

\* C9 as stated: a raising rule becomes exactly one CRITICAL issue with its
\* name, and every rule ordered after it is still executed.
C9_RaiseNeverStopsLaterRules ==
    /\ RaiseBecomesIssue
    /\ (v.pc = "done" /\ RaisedRules # {}) => AllRulesRan

\* C9, amended: a raising rule becomes exactly one CRITICAL issue with its
\* name, and every rule ordered after it is still executed in every run
\* whose collected error count stays below max_errors.
C9_RaiseIsolatedBelowCeiling ==
    /\ RaiseBecomesIssue
    /\ (v.pc = "done" /\ RaisedRules # {} /\ Len(v.errors) < max_errors) => AllRulesRan

C9_Witness ==
    /\ v.pc = "done"
    /\ RaisedRules # {}
    /\ Len(v.errors) < max_errors
    /\ AllRulesRan
    /\ Len(v.warnings) > 0

\* C10: once the number of collected errors has reached max_errors, no rule
\* is executed and no issue is added any more.
C10_NothingAfterCeiling ==
    [][Len(v.errors) >= max_errors =>
          (calls' = calls /\ v'.errors = v.errors /\ v'.warnings = v.warnings)]_vars

\* The running call read its file, met no store fault and writes rows whose
\* keys are pairwise distinct and new to the table (or are upserted).
ReadOk == Returned /\ result.stats.total_rows_read = Len(call.file) /\ call.faults = 0

FailingRows == { i \in DOMAIN call.file : SafeIntRaises(call.file[i].points) }

ConvertibleRows == DOMAIN call.file \ FailingRows

WritableKeys ==
    /\ \A i, j \in ConvertibleRows :
          i # j => << call.file[i].gameId, call.file[i].personId >>
                     # << call.file[j].gameId, call.file[j].personId >>
    /\ UseUpsert \/ \A r \in hist.store0 : PrimaryKey(r) \notin FileKeys

\* C12: ingesting a readable totals file of n valid team rows with distinct
\* keys reports success, total_rows_read = n, rows_inserted = n and no
\* errors, and afterwards the table holds the n rows with their values.
C12_TotalsIngestionSucceeds ==
    (ReadOk /\ data_type = "totals" /\ Len(call.file) > 0 /\ WritableKeys
       /\ FailingRows = {} /\ result.stats.validation_errors = 0
       /\ Cardinality(FileKeys) = Len(call.file)) =>
        /\ result.success
        /\ result.stats.total_rows_read = Len(call.file)
        /\ result.stats.rows_inserted = Len(call.file)
        /\ result.errors = <<>>
        /\ \A i \in DOMAIN call.file : ExpectedRow(call.file[i]) \in store.teams_raw

\* C13: a call reported as failed carries an entry in its error list saying
\* why, so that a call that met no fault and wrote zero rows cannot be
\* taken for a failed one.
C13_FailureAlwaysExplained ==
    Returned => (~result.success => result.errors # <<>>)

RECURSIVE WrittenRecords(_)
WrittenRecords(bs) ==
    IF bs = <<>> THEN <<>> ELSE Head(bs).records \o WrittenRecords(Tail(bs))

\* C14: in a box-score call without store fault, every row whose conversion
\* fails is counted in rows_skipped and in no error, no record is written
\* for it, and every other row of the file is written and stored.
C14_FailedConversionIsSkipped ==
    (ReadOk /\ data_type = "box_scores" /\ Reached("WRITING") /\ WritableKeys) =>
        /\ result.stats.rows_skipped = Cardinality(FailingRows)
        /\ result.stats.ingestion_errors = 0
        /\ result.stats.rows_inserted = Cardinality(ConvertibleRows)
        /\ Len(WrittenRecords(hist.batches)) = Cardinality(ConvertibleRows)
        /\ \A i \in ConvertibleRows :
              ExpectedRow(call.file[i]) \in store.players_raw
        /\ \A i \in FailingRows :
              \A r \in store.players_raw \ hist.store0 :
                 PrimaryKey(r) = << call.file[i].gameId, call.file[i].personId >>
                    => \E j \in ConvertibleRows : r = ExpectedRow(call.file[j])

C14_Witness ==
    /\ Returned /\ result.success
    /\ batch_size = 2 /\ Len(call.file) = 2
    /\ Cardinality(FailingRows) = 1
    /\ result.stats.rows_skipped = 1 /\ result.stats.rows_inserted = 1
    /\ Cardinality(store.players_raw) = 1

\* The defensive score of the stat line in `stats` has been computed.
ScoredDefense == answer.op = "calculate_defensive_impact_score"

NonNegativeDefense ==
    /\ stats.steals >= 0
    /\ stats.blocks >= 0
    /\ stats.rebounds_defensive >= 0
    /\ stats.fouls_personal >= 0

\* C19: for every stat line with non-negative steals, blocks, defensive
\* rebounds and fouls and with minutes > 0 the defensive impact score is
\* defined and lies within [0, 100]; for every stat line the score is
\* undefined exactly when minutes <= 0.
C19_DefensiveScoreInRange ==
    ScoredDefense =>
        /\ (answer.value = None) <=> (stats.minutes_played <= 0)
        /\ (NonNegativeDefense /\ stats.minutes_played > 0) =>
               /\ answer.value # None
               /\ RLeq(Float(0), answer.value)
               /\ RLeq(answer.value, Float(100))

\* A line whose components all sit at their caps in a long game: the product
\* with the minutes factor is 102 and the score returned is 100.
C19_Witness ==
    /\ ScoredDefense
    /\ NonNegativeDefense
    /\ stats.minutes_played = 48
    /\ stats.fouls_personal = 0
    /\ stats.steals = 5 /\ stats.blocks = 5 /\ stats.rebounds_defensive = 30
    /\ answer.value = Float(100)

\* The effective field-goal percentage of the line in `stats` has been computed.
ScoredEffectiveFG == answer.op = "calculate_effective_field_goal_percentage"

\* made <= attempted and three-pointers made <= field goals made, no negative count.
ConsistentShooting ==
    /\ 0 <= stats.three_pointers_made
    /\ stats.three_pointers_made <= stats.field_goals_made
    /\ stats.field_goals_made <= stats.field_goals_attempted

InEFGRange(x) == RLeq(Float(0), x) /\ RLeq(x, Rat(3, 2))

\* C20 as stated: for all stat lines, effective FG% is undefined iff FGA = 0
\* and otherwise lies within [0, 1.5].
C20_EFGInRangeForAllLines ==
    ScoredEffectiveFG =>
        /\ (answer.value = None) <=> (stats.field_goals_attempted = 0)
        /\ answer.value # None => InEFGRange(answer.value)

\* C20: for every stat line effective FG% is undefined iff FGA = 0; for every
\* line with 0 <= 3PM <= FGM <= FGA and FGA > 0 it lies within [0, 1.5].
C20_EFGInRangeForConsistentLines ==
    ScoredEffectiveFG =>
        /\ (answer.value = None) <=> (stats.field_goals_attempted = 0)
        /\ (ConsistentShooting /\ answer.value # None) => InEFGRange(answer.value)

\* Every make is a three: the top of the range is reached.
C20_Witness ==
    /\ ScoredEffectiveFG
    /\ ConsistentShooting
    /\ stats.field_goals_attempted = 2
    /\ stats.three_pointers_made = 2
    /\ answer.value = Rat(3, 2)

\* The efficiency trend direction has been asked for with window answer.window_size.
AskedEfficiencyTrend == answer.op = "detect_efficiency_trend_direction"

\* The arrangements of the games held from the most recent to the oldest
\* (several when games share a date), as sequences of positions in efficiency_games.
MostRecentFirst ==
    { order \in [ DOMAIN efficiency_games -> DOMAIN efficiency_games ] :
        /\ \A i, j \in DOMAIN order : i # j => order[i] # order[j]
        /\ \A i, j \in DOMAIN order :
              i < j => DateOrdinal(efficiency_games[order[i]].game_date)
                          >= DateOrdinal(efficiency_games[order[j]].game_date) }

\* "improving" / "declining" / "stable" by the later-half mean TS% against
\* the earlier-half mean, the later half being the `later` most recent games
\* of the window and the earlier half the rest of the window.
HalvesLabel(order, window, later) ==
    LET second == [ i \in 1..later |-> efficiency_games[order[i]].true_shooting_pct ]
        first == [ i \in 1..(window - later) |->
                     efficiency_games[order[later + i]].true_shooting_pct ]
        diff == RSub(Mean(second), Mean(first))
    IN  IF RLess(Rat(2, 100), diff) THEN "improving"
        ELSE IF RLess(diff, Rat(-2, 100)) THEN "declining"
        ELSE "stable"

AddsEntry(c) ==
    \/ c.op = "add_game"
    \/ /\ c.op = "add_game_from_stats"
       /\ (c.stats.field_goals_attempted > 0 \/ c.stats.free_throws_attempted > 0)

DateOfCall(c) == IF c.op = "add_game" THEN c.game.game_date ELSE c.game_date

PointsOfCall(c) == IF c.op = "add_game" THEN c.game.points ELSE c.stats.points

\* C17: after any sequence of add_game calls the efficiency analyzer holds
\* exactly one entry per call whose stats had a defined TS% (FGA > 0 or
\* FTA > 0), in call order, every held entry has a defined TS%, and a call
\* with FGA = FTA = 0 has left no trace in the analyzer.
C17_OneEntryPerDefinedGame ==
    LET adding == SelectSeq(alog, AddsEntry) IN
    /\ Len(efficiency_games) = Len(adding)
    /\ \A i \in DOMAIN efficiency_games :
          /\ efficiency_games[i].true_shooting_pct # None
          /\ efficiency_games[i].game_date = DateOfCall(adding[i])
          /\ efficiency_games[i].points = PointsOfCall(adding[i])

\* Three calls, the second of them with FGA = FTA = 0: two entries are held.
C17_Witness ==
    /\ Len(alog) = 3
    /\ alog[1].op = "add_game_from_stats" /\ AddsEntry(alog[1])
    /\ alog[2].op = "add_game_from_stats" /\ ~AddsEntry(alog[2])
    /\ alog[3].op = "add_game_from_stats" /\ AddsEntry(alog[3])
    /\ alog[3].stats.field_goals_attempted = 0
    /\ Len(efficiency_games) = 2

\* The games added for month k, in call order.
GamesOfMonth(k) == SelectSeq(game_data, LAMBDA g : MonthKey(g.game_date) = k)

PointsOf(games) == [ i \in DOMAIN games |-> Float(games[i].stats.points) ]

\* The TS% of the games for which it is defined.
DefinedTrueShootingOf(games) ==
    LET ts == [ i \in DOMAIN games |-> calculate_true_shooting_percentage(games[i].stats) ]
    IN  SelectSeq(ts, LAMBDA x : x # None)

MeanOrNone(values) == IF values = <<>> THEN None ELSE Mean(values)

\* The aggregates after the games of `games` are added in the order `order`.
RECURSIVE Replay(_, _, _)
Replay(games, order, upto) ==
    IF upto = 0 THEN <<>>
    ELSE update_monthly_aggregation(Replay(games, order, upto - 1),
                                    games[order[upto]].game_date,
                                    games[order[upto]].stats)

\* C11: after any sequence of add_game calls each month's running average of
\* a metric (points; TS% over the games where it is defined) equals the
\* arithmetic mean of that metric over exactly the games added for that month,
\* and the aggregates are the same for every order of adding those games.
C11_RunningAverageIsMean ==
    /\ \A k \in DOMAIN monthly_data :
          /\ monthly_data[k].games_played = Len(GamesOfMonth(k))
          /\ monthly_data[k].avg_points = Mean(PointsOf(GamesOfMonth(k)))
          /\ monthly_data[k].avg_true_shooting_pct
                = MeanOrNone(DefinedTrueShootingOf(GamesOfMonth(k)))
    /\ \A order \in Permutations(DOMAIN game_data) :
          Replay(game_data, order, Len(game_data)) = monthly_data

\* A game for month k has just been added.
AddedGameFor(k) ==
    /\ answer'.op = "add_game"
    /\ Len(game_data') = Len(game_data) + 1
    /\ MonthKey(game_data'[Len(game_data')].game_date) = k

\* C18: a monthly aggregate changes (or comes into being) only in an add_game
\* step for a date of that same month; add_game for another month and the
\* four query operations leave it as it is, and no aggregate is ever removed.
C18_AggregateChangesOnlyByOwnMonth ==
    [][ /\ DOMAIN monthly_data \subseteq DOMAIN monthly_data'
        /\ \A k \in DOMAIN monthly_data' :
              (k \notin DOMAIN monthly_data \/ monthly_data'[k] # monthly_data[k])
                  => AddedGameFor(k) ]_vars

\* Two months are held, a game was added to the first month after the second
\* month came into being, and a summary has been asked for since.
C18_Witness ==
    /\ answer.op = "get_trend_analysis_summary"
    /\ Len(game_data) = 3
    /\ MonthKey(game_data[1].game_date) = << 2024, 1 >>
    /\ MonthKey(game_data[2].game_date) = << 2024, 2 >>
    /\ MonthKey(game_data[3].game_date) = << 2024, 1 >>
    /\ monthly_data[<< 2024, 1 >>].games_played = 2
    /\ monthly_data[<< 2024, 2 >>].games_played = 1

\* The trend of the points averages has been asked for while five months are held.
AskedPointsTrendOfFive ==
    /\ answer.op = "detect_trend_direction"
    /\ answer.metric = "avg_points"
    /\ answer.min_months = 3
    /\ Cardinality(DOMAIN monthly_data) = 5

\* The five monthly points averages, oldest first.
PointAverages ==
    LET sorted_months == SortedMonths(monthly_data)
    IN  [ i \in 1..5 |-> sorted_months[i].avg_points ]

StrictlyIncreasing(a) == \A i \in 1..(Len(a) - 1) : RLess(a[i], a[i + 1])

StrictlyDecreasing(a) == \A i \in 1..(Len(a) - 1) : RLess(a[i + 1], a[i])

Constant(a) == \A i \in 1..(Len(a) - 1) : a[i] = a[i + 1]

\* C15 as stated: with five months held the points trend is "improving" for
\* every strictly increasing sequence of monthly averages, "declining" for
\* every strictly decreasing one and "stable" for every constant one.
C15_MonotoneMeansTrend ==
    AskedPointsTrendOfFive =>
        LET a == PointAverages IN
        /\ StrictlyIncreasing(a) => answer.value = "improving"
        /\ StrictlyDecreasing(a) => answer.value = "declining"
        /\ Constant(a) => answer.value = "stable"

\* The least-squares slope of five equally spaced values a1..a5:
\* (2 (a5 - a1) + (a4 - a2)) / 10.
SlopeOfFive(a) ==
    RDiv(RAdd(RMul(Float(2), RSub(a[5], a[1])), RSub(a[4], a[2])), Float(10))

\* C15: with five months held the points trend is "improving" iff the
\* least-squares slope of the monthly averages exceeds 0.5 points a month,
\* "declining" iff it is below -0.5, and "stable" otherwise; so it is
\* "stable" for every constant sequence.
C15_SlopeBeyondHalfPointMeansTrend ==
    AskedPointsTrendOfFive =>
        LET a == PointAverages
            slope == SlopeOfFive(a)
        IN  /\ (answer.value = "improving") <=> RLess(Rat(1, 2), slope)
            /\ (answer.value = "declining") <=> RLess(slope, Rat(-1, 2))
            /\ answer.value \in {"improving", "declining", "stable"}
            /\ Constant(a) => answer.value = "stable"

\* Averages 10, 10.5, 11, 12, 12 over seven games: the slope is 0.65 and the
\* trend is "improving".
C15_Witness ==
    /\ AskedPointsTrendOfFive
    /\ PointAverages[1] = Float(10)
    /\ PointAverages[2] = Rat(21, 2)
    /\ PointAverages[3] = Float(11)
    /\ PointAverages[4] = Float(12)
    /\ PointAverages[5] = Float(12)
    /\ answer.value = "improving"

\* C29: for the optional metric (TS%) a month's average is undefined iff the
\* metric was undefined for every game of the month, and otherwise equals the
\* arithmetic mean over only those games of the month for which it is defined.
C29_OptionalAverageOverDefinedGames ==
    \A k \in DOMAIN monthly_data :
        LET defined == DefinedTrueShootingOf(GamesOfMonth(k)) IN
        /\ (monthly_data[k].avg_true_shooting_pct = None) <=> (defined = <<>>)
        /\ defined # <<>> => monthly_data[k].avg_true_shooting_pct = Mean(defined)

\* The games held, taken in the order `order` of their positions.
Rearranged(order) == [ i \in DOMAIN efficiency_games |-> efficiency_games[order[i]] ]

\* C30: the recency-weighted average and the trend direction of the efficiency
\* analyzer are those of the collection of games held: every other order of
\* the same add_game calls gives the same answer, also when games share a date.
C30_AnswersIndependentOfCallOrder ==
    /\ answer.op = "calculate_efficiency_trend" =>
          \A order \in Permutations(DOMAIN efficiency_games) :
              answer.value = calculate_efficiency_trend(Rearranged(order), Rat(95, 100))
    /\ AskedEfficiencyTrend =>
          \A order \in Permutations(DOMAIN efficiency_games) :
              answer.value = detect_efficiency_trend_direction(Rearranged(order),
                                                               answer.window_size)

RECURSIVE RowsOfOkBatches(_)
RowsOfOkBatches(bs) ==
    IF bs = <<>> THEN 0
    ELSE (IF Head(bs).ok THEN Len(Head(bs).records) ELSE 0) + RowsOfOkBatches(Tail(bs))

\* The rows the call committed: those of the batches whose statement ran,
\* if the transaction they ran in was committed, and none otherwise.
CommittedRows ==
    IF session.ended = "commit" THEN RowsOfOkBatches(hist.batches) ELSE 0

\* C25: after any ingestion call, also one in which a batch write or the final
\* commit fails, rows_inserted + rows_updated equals the number of rows the
\* call committed to the store.
C25_ReportedRowsAreCommitted ==
    (Returned /\ Reached("WRITING")) =>
        result.stats.rows_inserted + result.stats.rows_updated = CommittedRows

\* C26: for every call that reaches the write stage rows_inserted +
\* rows_updated + rows_skipped <= total_rows_read, with equality whenever the
\* call reports zero ingestion errors.
C26_EveryRowAccountedOnce ==
    (Returned /\ Reached("WRITING")) =>
        LET accounted == result.stats.rows_inserted + result.stats.rows_updated
                           + result.stats.rows_skipped
        IN  /\ accounted <= result.stats.total_rows_read
            /\ result.stats.ingestion_errors = 0 =>
                  accounted = result.stats.total_rows_read

\* A call of two batches, the first written, the second failed: one row is
\* accounted for, two were read, and an ingestion error is reported.
C26_Witness ==
    /\ Returned /\ Reached("WRITING")
    /\ Len(hist.batches) = 2
    /\ hist.batches[1].ok /\ ~hist.batches[2].ok
    /\ result.stats.total_rows_read = 2
    /\ result.stats.rows_inserted = 1 /\ result.stats.rows_skipped = 0
    /\ result.stats.ingestion_errors > 0

\* A run of process_season_data has just returned.
Processed == result.kind = "process" /\ Idle

\* The step is a run of process_season_data that follows another run with
\* no ingestion in between, so on the same raw table.
SecondRun == Processed /\ result'.kind = "process" /\ hist'.ops = hist.ops + 1

OneRecordPerKey ==
    \A p, q \in store.players_processed : PrimaryKey(p) = PrimaryKey(q) => p = q

EachRawRowCountedOnce ==
    Processed =>
        result.stats.processed_count + result.stats.skipped_count
            + result.stats.error_count = Cardinality(store.players_raw)

SecondRunOnlySkips ==
    SecondRun =>
        /\ result'.stats.processed_count = 0
        /\ store'.players_processed = store.players_processed
        /\ result'.stats.skipped_count >= result.stats.processed_count

RunsWithinRawTable ==
    Processed =>
        LET counted == result.stats.processed_count + result.stats.skipped_count
                         + result.stats.error_count
        IN  /\ counted <= Cardinality(store.players_raw)
            /\ result.success => counted = Cardinality(store.players_raw)

RerunAfterSuccessOnlySkips ==
    (SecondRun /\ result.success) =>
        /\ result'.stats.processed_count = 0
        /\ store'.players_processed = store.players_processed
        /\ result'.success =>
              /\ result'.stats.skipped_count = Cardinality(store.players_raw)
              /\ result'.stats.skipped_count >= result.stats.processed_count

AppliedReboundsRule ==
    answer.op = "_validate_rebounds_consistency" /\ ReboundCols \subseteq df.columns

AllPresent(row) ==
    ~row.reboundsOffensive.nan /\ ~row.reboundsDefensive.nan /\ ~row.reboundsTotal.nan

IssuesOfRow(i) == { k \in DOMAIN answer.value : answer.value[k].row_index = i }

ExecutionReturned == wf.pc = "returned"

\* The task named a lists the task named b as a dependency.
DependsOn(a, b) ==
    \E i \in DOMAIN workflow :
        /\ workflow[i].name = a
        /\ \E k \in DOMAIN workflow[i].dependencies : workflow[i].dependencies[k] = b

AllNames ==
    TaskNames(workflow) \cup
    UNION { { workflow[i].dependencies[k] : k \in DOMAIN workflow[i].dependencies } :
              i \in DOMAIN workflow }

RECURSIVE Closure(_)
Closure(R) ==
    LET more == R \cup { e \in AllNames \X AllNames :
                           \E m \in AllNames : << e[1], m >> \in R /\ << m, e[2] >> \in R }
    IN IF more = R THEN R ELSE Closure(more)

Requires == Closure({ e \in AllNames \X AllNames : DependsOn(e[1], e[2]) })

MissingDependency == AllNames # TaskNames(workflow)

CircularDependency == \E a \in AllNames : << a, a >> \in Requires

Invocations(name) == { k \in DOMAIN invoked : invoked[k].task = name }

EveryTaskRanOnce ==
    \A name \in TaskNames(workflow) :
        /\ Cardinality(Invocations(name)) = 1
        /\ \A k \in Invocations(name) : invoked[k].outcome = "returned"

CompletedInFull ==
    /\ execution.status = "COMPLETED"
    /\ execution.progress = Float(1)
    /\ ~execution.results.is_none
    /\ execution.results.keys = TaskNames(workflow)

FailedAtFirstFailure ==
    /\ execution.status = "FAILED"
    /\ execution.error_message # "None"
    /\ execution.completed_at
    /\ \A k \in DOMAIN invoked : invoked[k].outcome = "raised" => k = Len(invoked)
    /\ (MissingDependency \/ CircularDependency) => invoked = <<>>

\* C22: without a cancel, execute_workflow ends COMPLETED with progress 1.0
\* and a result for every task exactly if the dependency graph is valid and
\* acyclic and every task was invoked once without raising; otherwise it ends
\* FAILED with an error message and completed_at set, no task after the
\* first failing one is invoked, a missing or circular dependency invokes no
\* task, and no task is ever invoked more than once.
C22_CompletedIffEveryTaskRanOnce ==
    /\ \A name \in AllNames : Cardinality(Invocations(name)) <= 1
    /\ ExecutionReturned =>
          /\ CompletedInFull <=>
                (~MissingDependency /\ ~CircularDependency /\ EveryTaskRanOnce)
          /\ ~CompletedInFull => FailedAtFirstFailure

\* A workflow of three tasks in a chain ended FAILED when its second task
\* raised: the third task was not invoked.
C22_Witness ==
    /\ ExecutionReturned
    /\ Len(workflow) = 3 /\ ~MissingDependency /\ ~CircularDependency
    /\ DependsOn("a", "b") /\ DependsOn("b", "c")
    /\ execution.status = "FAILED"
    /\ Len(invoked) = 2
    /\ invoked[1] = [task |-> "c", outcome |-> "returned", status |-> "RUNNING"]
    /\ invoked[2].task = "b" /\ invoked[2].outcome = "raised"

Position(order, name) == CHOOSE k \in DOMAIN order : order[k] = name

\* C23: for every acyclic workflow whose dependencies all exist
\* get_execution_order returns each task exactly once, after all of its
\* dependencies, and in any run a task is invoked only after each of its
\* dependencies has been invoked and has returned without raising.
C23_DependenciesRunFirst ==
    (~MissingDependency /\ ~CircularDependency) =>
        LET ordered == get_execution_order(workflow) IN
        /\ ~ordered.raised
        /\ Len(ordered.order) = Len(workflow)
        /\ { ordered.order[k] : k \in DOMAIN ordered.order } = TaskNames(workflow)
        /\ \A a, b \in TaskNames(workflow) :
              DependsOn(a, b) => Position(ordered.order, b) < Position(ordered.order, a)
        /\ \A k \in DOMAIN invoked :
              \A b \in TaskNames(workflow) :
                  DependsOn(invoked[k].task, b) =>
                      \E j \in 1 .. (k - 1) :
                          invoked[j].task = b /\ invoked[j].outcome = "returned"

\* The NBA data processing workflow has invoked process_nba_dataset, after
\* both of its dependencies returned.
C23_Witness ==
    /\ workflow = NBADataProcessingWorkflow
    /\ Len(invoked) = 3
    /\ invoked[3].task = "process_nba_dataset"
    /\ invoked[1].outcome = "returned" /\ invoked[2].outcome = "returned"

TerminalStatuses == {"COMPLETED", "FAILED", "CANCELLED"}

CancelReturnedTrue == \E k \in DOMAIN cancels : cancels[k].returned

FirstCancel == CHOOSE k \in DOMAIN cancels :
                   cancels[k].returned /\ \A j \in 1 .. (k - 1) : ~cancels[j].returned

\* C24: cancel_workflow returns True only for a RUNNING execution; once it
\* has returned True the status remains CANCELLED and no further task of the
\* execution is started, for every interleaving with execute_workflow; the
\* terminal statuses COMPLETED, FAILED and CANCELLED are never left.
C24_CancelledStaysCancelled ==
    /\ [](\A k \in DOMAIN cancels : cancels[k].returned => cancels[k].status = "RUNNING")
    /\ [](CancelReturnedTrue =>
             /\ execution.status = "CANCELLED"
             /\ Len(invoked) = cancels[FirstCancel].invoked)
    /\ [][execution.status \in TerminalStatuses =>
             execution'.status = execution.status]_vars

PipelineReturned == pipeline.pc = "returned"

\* C27: process_nba_dataset attempts the ingestion of every discovered file,
\* also after an earlier file failed, and returns success = True only if
\* every file's ingestion result and every season's processing result is
\* itself successful.
C27_SuccessMeansEveryResultSucceeded ==
    PipelineReturned =>
        /\ Len(pipeline.outcome.ingestion_results) = Len(pipeline.csv_files)
        /\ pipeline.outcome.success =>
              /\ \A i \in DOMAIN pipeline.outcome.ingestion_results :
                     pipeline.outcome.ingestion_results[i].success
              /\ \A i \in DOMAIN pipeline.outcome.processing_results :
                     pipeline.outcome.processing_results[i].success

====
